---- MODULE Spec2Model ----
(***************************************************************************)
(* The component registry of gamehub-lite-api, its validator and its       *)
(* simulator generators, driven the way build() drives them: the primary   *)
(* (XML) records are registered first, the override (custom) records       *)
(* after them, then the singleton datasets are assigned, and from then on  *)
(* validate() and the generators read the registry.                        *)
(*                                                                         *)
(* Strings that the code takes apart or puts together (file_name,          *)
(* download_url, file_md5, file_size) are sequences of one-character       *)
(* strings; strings that are only stored and compared are TLA+ strings.    *)
(***************************************************************************)
EXTENDS Integers, Sequences, FiniteSets, TLC

VARIABLES
    pc,                 \* where the run is: "xml", "custom", "static", "ready", "crashed";
                        \* "validated", "generating", "complete", "exited" in build();
                        \* "sort", "sorted"
    merged,             \* the part of build()'s merged record list that addComponents has consumed
    components,         \* ComponentRegistry.components: Map in insertion order, as a sequence
    componentsByType,   \* ComponentRegistry.componentsByType: type -> Component[]
    componentsByName,   \* ComponentRegistry.componentsByName: name -> Component
    containers,         \* ComponentRegistry.containers
    imagefs,            \* ComponentRegistry.imagefs
    defaults,           \* ComponentRegistry.defaults
    executionConfig,    \* ComponentRegistry.executionConfig
    result,             \* what the last call returned or threw
    sortIn,             \* the list handed to sortByIdDescending
    sortOut,            \* the list sortByIdDescending returned
    config,             \* BuildConfig: the configured timestamp ("" when none is set)
    clock,              \* Math.floor(Date.now() / 1000)
    timestamp,          \* build()'s timestamp ("" until it is taken)
    written,            \* the output files build() has written, in order
    inputFiles,         \* the data files a command reads, when they are fixed beforehand
    command,            \* the command the process runs: "build" or "validate"
    reported,           \* what the validate command reported: "", "passed" or "failed"
    converter           \* the driver converter: its directory, the two files it reads,
                        \* and the locals of its main()

vars == <<pc, merged, components, componentsByType, componentsByName, containers,
          imagefs, defaults, executionConfig, result, sortIn, sortOut,
          config, clock, timestamp, written, inputFiles, command, reported, converter>>

\* build()'s own state
run == <<config, clock, timestamp, written, inputFiles, command, reported, converter>>

registry == <<components, componentsByType, componentsByName, containers,
              imagefs, defaults, executionConfig>>

----------------------------------------------------------------------------
(* Bounds of the model.                                                    *)

\* records that one run hands to addComponent
MaxAdds == 3
\* component ids that the sources use are 1..MaxId; MaxId + 1 is never registered
MaxId == 2
\* longest list handed to sortByIdDescending
MaxSortLen == 3
\* seconds that pass during one build
MaxTicks == 2
\* records of the long catalog, which is longer than one page of getComponentList
MaxListLen == 12

----------------------------------------------------------------------------
(* JavaScript values.                                                      *)

NULL == [null |-> TRUE]
UNDEFINED == [undefined |-> TRUE]

\* the string "undefined", which String(undefined) yields
UndefinedText == <<"u", "n", "d", "e", "f", "i", "n", "e", "d">>

Rep(ch, n) == [i \in 1..n |-> ch]

DigitChar(d) == CASE d = 0 -> "0" [] d = 1 -> "1" [] d = 2 -> "2" [] d = 3 -> "3"
                  [] d = 4 -> "4" [] d = 5 -> "5" [] d = 6 -> "6" [] d = 7 -> "7"
                  [] d = 8 -> "8" [] d = 9 -> "9"

RECURSIVE NumberToString(_)
NumberToString(n) ==
    IF n < 10 THEN <<DigitChar(n)>>
    ELSE NumberToString(n \div 10) \o <<DigitChar(n % 10)>>

\* a JSON value of a file_size field: a string, a number, or no field at all
StringValue(s) == [t |-> "string", s |-> s, n |-> 0]
NumberValue(n) == [t |-> "number", s |-> <<>>, n |-> n]
MissingValue == [t |-> "undefined", s |-> <<>>, n |-> 0]

typeof(v) == v.t

\* String(v)
String(v) ==
    CASE v.t = "string" -> v
      [] v.t = "number" -> StringValue(NumberToString(v.n))
      [] v.t = "undefined" -> StringValue(UndefinedText)

\* what a call did: the value it returned, or the error it threw
Returned(op, args, value) ==
    [op |-> op, args |-> args, threw |-> FALSE, error |-> "", value |-> value]
Threw(op, args, error) ==
    [op |-> op, args |-> args, threw |-> TRUE, error |-> error, value |-> NULL]

----------------------------------------------------------------------------
(* BuildConfig.                                                            *)

cdnBaseUrl == <<"c", "d", "n">>
logoUrl == "logo.png"

----------------------------------------------------------------------------
(* The records of the two sources.                                         *)

Ids == 1..MaxId
\* names are one letter long; one is lower case, one upper case
Names == {"a", "B"}
\* the component types the sample records use: BOX64_FEX and DXVK
SourceTypes == {1, 3}
\* a type outside 1..7
BadType == 7 + 1

Md5Len == 32
Md5Lower == Rep("a", Md5Len - 1) \o <<"0">>
Md5Upper == Rep("F", Md5Len - 1) \o <<"9">>
Md5Short == Rep("a", Md5Len - 1)
Md5Long == Rep("a", Md5Len + 1)
Md5NonHex == Rep("a", Md5Len - 1) \o <<"g">>

FileNameA == <<"f", ".", "t">>
FileNameSpace == <<"g", " ", "h">>
FileNameEmpty == <<>>

\* the file descriptor of a record: file_name, file_md5, file_size
Payload(fn, md5, size) == [file_name |-> fn, file_md5 |-> md5, file_size |-> size]

\* XmlEntry (the fields parseXmlContent reads)
XmlEntry(id, name, type, p) ==
    [id |-> id, name |-> name, type |-> type, version |-> "2.0.0", version_code |-> 2,
     file_name |-> p.file_name, file_md5 |-> p.file_md5, file_size |-> p.file_size,
     download_url |-> <<"s", "r", "c", "/">> \o p.file_name, logo |-> "source.png",
     display_name |-> "", blurb |-> ""]

\* CustomComponentDefinition
CustomDefinition(id, name, type, p) ==
    [id |-> id, name |-> name, type |-> type, version |-> "1.0.0", version_code |-> 0,
     file_name |-> p.file_name, file_md5 |-> p.file_md5, file_size |-> p.file_size,
     display_name |-> "", blurb |-> ""]

XmlBasePayload == Payload(FileNameA, Md5Lower, NumberValue(12))
CustomBasePayload == Payload(FileNameA, Md5Lower, StringValue(<<"1", "2">>))

\* the primary catalog's entries: every id, name and type, one sound file descriptor;
\* one entry of a type outside 1..7, one without a name, and one with a blurb
XmlEntries ==
    {XmlEntry(i, n, t, XmlBasePayload) : i \in Ids, n \in Names, t \in SourceTypes}
    \cup {XmlEntry(1, "a", BadType, XmlBasePayload), XmlEntry(1, "", 1, XmlBasePayload),
          [XmlEntry(MaxId, "a", 1, XmlBasePayload) EXCEPT !.blurb = "note"]}

\* the override file's records: the same, and one of a type outside 1..7
CustomDefinitions ==
    {CustomDefinition(i, n, t, CustomBasePayload) : i \in Ids, n \in Names, t \in SourceTypes}
    \cup {CustomDefinition(MaxId, "a", BadType, CustomBasePayload)}

\* file descriptors of primary entries: the sound one, a file name with a space,
\* two more MD5 spellings, and one with every field unsound
XmlPayloads ==
    {XmlBasePayload,
     Payload(FileNameSpace, Md5Lower, NumberValue(12)),
     Payload(FileNameA, Md5Upper, NumberValue(12)),
     Payload(FileNameA, Md5Long, NumberValue(12)),
     Payload(FileNameEmpty, Md5NonHex, MissingValue)}

\* file descriptors of override records: the sound one, a numeric and a non-numeric
\* file_size, two more MD5 spellings, and one with every field unsound
CustomPayloads ==
    {CustomBasePayload,
     Payload(FileNameA, Md5Lower, NumberValue(12)),
     Payload(FileNameA, Md5Lower, StringValue(<<"1", "x">>)),
     Payload(FileNameA, Md5Short, StringValue(<<"1", "2">>)),
     Payload(FileNameA, Md5NonHex, StringValue(<<"1", "2">>)),
     Payload(FileNameEmpty, Md5Long, NumberValue(12))}

XmlFieldEntries == {XmlEntry(i, "a", 1, p) : i \in {1, MaxId}, p \in XmlPayloads}
CustomFieldDefinitions ==
    {CustomDefinition(i, "b", 3, p) : i \in {1, MaxId}, p \in CustomPayloads}

----------------------------------------------------------------------------
(* The parsers.                                                            *)

\* parseXmlContent, for one entry: the Component, or UNDEFINED for a skipped entry
parseXmlEntry(entry) ==
    IF entry.name = "" THEN UNDEFINED
    ELSE IF entry.type < 1 \/ entry.type > 7 THEN UNDEFINED
    ELSE [id |-> entry.id,
          name |-> entry.name,
          type |-> entry.type,
          version |-> IF entry.version = "" THEN "1.0.0" ELSE entry.version,
          version_code |-> IF entry.version_code = 0 THEN 1 ELSE entry.version_code,
          file_name |-> entry.file_name,
          file_md5 |-> entry.file_md5,
          file_size |-> String(entry.file_size),
          download_url |-> entry.download_url,
          logo |-> entry.logo,
          display_name |-> entry.display_name,
          blurb |-> entry.blurb]

\* parseCustomComponents, for one record
parseCustomDefinition(custom) ==
    [id |-> custom.id,
     name |-> custom.name,
     type |-> custom.type,
     version |-> custom.version,
     version_code |-> IF custom.version_code = 0 THEN 1 ELSE custom.version_code,
     file_name |-> custom.file_name,
     file_md5 |-> custom.file_md5,
     file_size |-> custom.file_size,
     download_url |-> cdnBaseUrl \o <<"/">> \o custom.file_name,
     logo |-> logoUrl,
     display_name |-> IF custom.display_name = "" THEN custom.name ELSE custom.display_name,
     blurb |-> custom.blurb]

----------------------------------------------------------------------------
(* ComponentRegistry.                                                      *)

ComponentTypes == 1..7

has(id) == \E i \in 1..Len(components) : components[i].id = id

getById(id) ==
    IF has(id)
    THEN components[CHOOSE i \in 1..Len(components) : components[i].id = id]
    ELSE UNDEFINED

getByName(name) ==
    IF name \in DOMAIN componentsByName THEN componentsByName[name] ELSE UNDEFINED

getByType(type) == IF type \in DOMAIN componentsByType THEN componentsByType[type] ELSE <<>>

getAllComponents == components

getTotalCount == Len(components)

getCountByType(type) == Len(getByType(type))

\* the compare function of sortByIdDescending
CompareIdAscending(a, b) == a.id - b.id
compareIdDescending(a, b) == b.id - a.id

\* Array.prototype.sort, given what the compare function yields for the elements
\* at i and j: the elements in the order of compare, elements that compare equal
\* in the order they had (the sort is stable)
ArraySort(list, compared) ==
    LET n == Len(list)
        before(j, i) == \/ compared[j, i] < 0
                        \/ compared[j, i] = 0 /\ j < i
        rank(i) == Cardinality({j \in 1..n : before(j, i)}) + 1
    IN [k \in 1..n |-> list[CHOOSE i \in 1..n : rank(i) = k]]

\* sortByIdDescending: the list handed in, as the call leaves it, and the list returned
SortsInPlace(list) ==
    LET sorted == ArraySort(list, [i, j \in 1..Len(list) |->
                                      compareIdDescending(list[i], list[j])])
    IN [argument |-> sorted, returned |-> sorted]
sortByIdDescending(list) ==
    [argument |-> list,
     returned |-> ArraySort(list, [i, j \in 1..Len(list) |->
                                      compareIdDescending(list[i], list[j])])]

\* the compare function of sortByTypeAndIdDescending
CompareTypeThenIdAscending(a, b) == IF a.type # b.type THEN a.type - b.type ELSE a.id - b.id
compareTypeThenIdDescending(a, b) == IF a.type # b.type THEN a.type - b.type ELSE b.id - a.id

sortByTypeAndIdDescending(list) ==
    [argument |-> list,
     returned |-> ArraySort(list, [i, j \in 1..Len(list) |->
                                      compareTypeThenIdDescending(list[i], list[j])])]

\* the duplicate check of addComponent
RejectsNothing(component) == FALSE
ChecksIdAndName(component) ==
    \E i \in 1..Len(components) :
        components[i].id = component.id /\ components[i].name = component.name
IsDuplicate(component) == has(component.id)

\* the rewritten component of addComponent
KeepsSourceUrl(component) == [component EXCEPT !.logo = logoUrl]
rewrittenComponent(component) ==
    [component EXCEPT !.download_url = cdnBaseUrl \o <<"/">> \o component.file_name,
                      !.logo = logoUrl]

\* componentsByType.get(type)!.push(c)
PushesInFront(byType, c) == [byType EXCEPT ![c.type] = <<c>> \o @]
pushByType(byType, c) == [byType EXCEPT ![c.type] = Append(@, c)]

\* componentsByName.set(name, c)
setByName(byName, c) ==
    [n \in DOMAIN byName \cup {c.name} |-> IF n = c.name THEN c ELSE byName[n]]

\* addComponent: a duplicate id returns early; a type with no partition throws
\* at the push, after the id index has been set
addComponent(component) ==
    IF IsDuplicate(component)
    THEN /\ UNCHANGED <<components, componentsByType, componentsByName>>
         /\ result' = Returned("addComponent", <<component>>, UNDEFINED)
    ELSE LET c == rewrittenComponent(component) IN
         /\ components' = Append(components, c)
         /\ IF component.type \in DOMAIN componentsByType
            THEN /\ componentsByType' = pushByType(componentsByType, c)
                 /\ componentsByName' = setByName(componentsByName, c)
                 /\ result' = Returned("addComponent", <<component>>, UNDEFINED)
            ELSE /\ UNCHANGED <<componentsByType, componentsByName>>
                 /\ result' = Threw("addComponent", <<component>>, "TypeError")

----------------------------------------------------------------------------
(* The singleton datasets.                                                 *)

Container(id) ==
    [id |-> id, name |-> "wine", version |-> "9.0", version_code |-> 9,
     file_name |-> <<"w">>, file_md5 |-> Md5Lower, file_size |-> StringValue(<<"7">>),
     download_url |-> <<"w", "/", "w">>, logo |-> "wine.png", display_name |-> "Wine",
     framework |-> "X64", framework_type |-> "stable", is_steam |-> 0, sub_data |-> NULL]

TheImagefs ==
    [id |-> 1, name |-> "imagefs", version |-> "1.3", version_code |-> 13,
     file_name |-> <<"i">>, file_md5 |-> Md5Lower, file_size |-> StringValue(<<"9">>),
     download_url |-> <<"i", "/", "i">>, logo |-> "fs.png", display_name |-> "Firmware",
     upgrade_msg |-> "new", blurb |-> "base"]

TheExecutionConfig ==
    [translations |-> "tables", controller |-> "flags", audio_driver |-> 0,
     cpu_limitations |-> 0, video_memory |-> 0, directx_panel |-> 0,
     launch_windowed_mode |-> 0, start_param |-> "", environment |-> ""]

\* an id that no source record carries
Unregistered == MaxId + 1

Defaults(dxvk, vkd3d, steamClient, container, generic, qualcomm) ==
    [dxvk |-> dxvk, vkd3d |-> vkd3d, steamClient |-> steamClient, container |-> container,
     genericComponentIds |-> generic, qualcommComponentIds |-> qualcomm,
     genericContext |-> "generic-context", qualcommContext |-> "qualcomm-context"]

\* defaults files: every pattern of resolving and dangling default ids, with id
\* lists that hold a dangling id; and one whose references can all resolve
DefaultsFiles ==
    {Defaults(d, v, s, 1, <<MaxId, Unregistered, 1>>, <<Unregistered, 1, Unregistered>>) :
        d \in {1, Unregistered}, v \in {MaxId, Unregistered}, s \in {1, Unregistered}}
    \cup {Defaults(1, MaxId, 1, 1, <<MaxId, 1>>, <<>>)}

SoundDefaults == Defaults(1, MaxId, 1, 1, <<MaxId, 1>>, <<>>)
SoundContainers == <<Container(2), Container(1)>>

Static(c, i, d, e) == [containers |-> c, imagefs |-> i, defaults |-> d, executionConfig |-> e]

\* what the four data files can hold (containers, imagefs, defaults,
\* executionConfig): sound files, files of which one is empty, null or dangling,
\* and four empty files
StaticData ==
    {Static(SoundContainers, TheImagefs, d, TheExecutionConfig) : d \in DefaultsFiles}
    \cup {Static(c, TheImagefs, SoundDefaults, TheExecutionConfig) :
            c \in {<<>>, <<Container(2)>>}}
    \cup {Static(SoundContainers, NULL, SoundDefaults, TheExecutionConfig),
          Static(SoundContainers, TheImagefs, NULL, TheExecutionConfig),
          Static(SoundContainers, TheImagefs, SoundDefaults, NULL),
          Static(<<>>, NULL, NULL, NULL)}

\* the data files of the runs that vary the file descriptors: empty files,
\* dangling component ids, sound files, and sound files but for a default
\* container that the container list lacks
FieldStaticData ==
    {Static(<<>>, NULL, NULL, NULL),
     Static(<<>>, NULL,
            Defaults(1, MaxId, Unregistered, 1, <<MaxId, 1>>, <<Unregistered>>), NULL),
     Static(<<Container(1)>>, TheImagefs, Defaults(1, 1, 1, 1, <<1>>, <<1>>),
            TheExecutionConfig),
     Static(<<Container(2)>>, TheImagefs, Defaults(1, 1, 1, 1, <<1>>, <<1>>),
            TheExecutionConfig)}

----------------------------------------------------------------------------
(* ComponentRegistry.validate.                                             *)

Error(msg, id) == [msg |-> msg, id |-> id]

HexClass == {"a", "b", "c", "d", "e", "f", "0", "1", "2", "3", "4", "5", "6", "7", "8", "9"}

\* the case folding of the regular expression's i flag
Canonicalize(ch) ==
    CASE ch = "a" -> "A" [] ch = "b" -> "B" [] ch = "c" -> "C" [] ch = "d" -> "D"
      [] ch = "e" -> "E" [] ch = "f" -> "F" [] ch = "g" -> "G"
      [] OTHER -> ch

FoldedHexClass == {Canonicalize(c) : c \in HexClass}

\* /^[a-f0-9]{32}$/i.test(s)
TestMd5CaseSensitive(s) == Len(s) = Md5Len /\ \A i \in 1..Len(s) : s[i] \in HexClass
TestMd5(s) ==
    /\ Len(s) = Md5Len
    /\ \A i \in 1..Len(s) : Canonicalize(s[i]) \in FoldedHexClass

\* the checks of the five required datasets
RequiredDataErrors ==
    (IF Len(components) = 0 THEN <<Error("No components loaded", 0)>> ELSE <<>>)
    \o (IF imagefs = NULL THEN <<Error("Imagefs not loaded", 0)>> ELSE <<>>)
    \o (IF Len(containers) = 0 THEN <<Error("No containers loaded", 0)>> ELSE <<>>)
    \o (IF defaults = NULL THEN <<Error("Defaults not loaded", 0)>> ELSE <<>>)
    \o (IF executionConfig = NULL THEN <<Error("Execution config not loaded", 0)>> ELSE <<>>)

\* the check of file_size
AcceptsAnyFileSize(component) == TRUE
FileSizeAccepted(component) == typeof(component.file_size) = "string"

\* the checks of one component
ComponentErrors(component) ==
    (IF ~FileSizeAccepted(component)
     THEN <<Error("file_size must be string", component.id)>> ELSE <<>>)
    \o (IF ~TestMd5(component.file_md5)
        THEN <<Error("invalid MD5 hash", component.id)>> ELSE <<>>)
    \o (IF component.name = "" THEN <<Error("missing name", component.id)>> ELSE <<>>)
    \o (IF component.file_name = <<>>
        THEN <<Error("missing file_name", component.id)>> ELSE <<>>)
    \o (IF component.download_url = <<>>
        THEN <<Error("missing download_url", component.id)>> ELSE <<>>)

RECURSIVE AllComponentErrors(_)
AllComponentErrors(list) ==
    IF list = <<>> THEN <<>>
    ELSE ComponentErrors(Head(list)) \o AllComponentErrors(Tail(list))

RECURSIVE IdListErrors(_, _)
IdListErrors(ids, msg) ==
    IF ids = <<>> THEN <<>>
    ELSE (IF ~has(Head(ids)) THEN <<Error(msg, Head(ids))>> ELSE <<>>)
         \o IdListErrors(Tail(ids), msg)

\* the checks of the default references
ChecksDxvkOnly ==
    IF defaults = NULL THEN <<>>
    ELSE IF ~has(defaults.dxvk) THEN <<Error("Default dxvk ID not found", defaults.dxvk)>>
    ELSE <<>>
DefaultsErrors ==
    IF defaults = NULL THEN <<>>
    ELSE (IF ~has(defaults.dxvk)
          THEN <<Error("Default dxvk ID not found", defaults.dxvk)>> ELSE <<>>)
         \o (IF ~has(defaults.vkd3d)
             THEN <<Error("Default vkd3d ID not found", defaults.vkd3d)>> ELSE <<>>)
         \o (IF ~has(defaults.steamClient)
             THEN <<Error("Default steamClient ID not found", defaults.steamClient)>>
             ELSE <<>>)
         \o IdListErrors(defaults.genericComponentIds,
                         "Generic script component ID not found")
         \o IdListErrors(defaults.qualcommComponentIds,
                         "Qualcomm script component ID not found")

\* the errors list validate() has built when it returns
StopsAtFirstError ==
    LET all == RequiredDataErrors \o AllComponentErrors(components) \o DefaultsErrors
    IN IF all = <<>> THEN <<>> ELSE <<Head(all)>>
validateErrors == RequiredDataErrors \o AllComponentErrors(components) \o DefaultsErrors

validate == LET errors == validateErrors IN [valid |-> Len(errors) = 0, errors |-> errors]

----------------------------------------------------------------------------
(* The manifest, index and downloads generators.                           *)

\* COMPONENT_TYPE_META
COMPONENT_TYPE_META(type) ==
    CASE type = 1 -> [name |-> "box64", displayName |-> "Box64 Emulators",
                      manifest |-> "box64_manifest"]
      [] type = 2 -> [name |-> "drivers", displayName |-> "GPU Drivers",
                      manifest |-> "drivers_manifest"]
      [] type = 3 -> [name |-> "dxvk", displayName |-> "DXVK Layers",
                      manifest |-> "dxvk_manifest"]
      [] type = 4 -> [name |-> "vkd3d", displayName |-> "VKD3D Proton",
                      manifest |-> "vkd3d_manifest"]
      [] type = 5 -> [name |-> "games", displayName |-> "Game Patches",
                      manifest |-> "games_manifest"]
      [] type = 6 -> [name |-> "libraries", displayName |-> "System Libraries",
                      manifest |-> "libraries_manifest"]
      [] type = 7 -> [name |-> "steam", displayName |-> "Steam Components",
                      manifest |-> "steam_manifest"]

\* a.localeCompare(b) for one-letter names: the collation orders by letter
\* first (the place of the letter in the alphabet, whatever its case) and puts
\* the lower-case form of a letter before its upper-case form
localeCompare(a, b) ==
    LET LetterRank(name) == CASE name \in {"a", "A"} -> 1
                              [] name \in {"b", "B"} -> 2
        IsUpperCase(name) == name \in {"A", "B"}
    IN IF LetterRank(a) # LetterRank(b) THEN LetterRank(a) - LetterRank(b)
       ELSE (IF IsUpperCase(a) THEN 1 ELSE 0) - (IF IsUpperCase(b) THEN 1 ELSE 0)

toDownloadEntry(component) ==
    [download_url |-> component.download_url,
     file_md5 |-> component.file_md5,
     file_name |-> component.file_name,
     file_size |-> component.file_size,
     name |-> component.name,
     type |-> component.type,
     version |-> component.version]

\* the compare function of generateDownloads
ComparesNameOnly(a, b) == localeCompare(a.name, b.name)
compareTypeThenName(a, b) ==
    IF a.type # b.type THEN a.type - b.type ELSE localeCompare(a.name, b.name)

generateDownloads ==
    LET allComponents == getAllComponents
        sorted == ArraySort(allComponents,
                            [i, j \in 1..Len(allComponents) |->
                                compareTypeThenName(allComponents[i], allComponents[j])])
        downloads == [k \in 1..Len(sorted) |-> toDownloadEntry(sorted[k])]
    IN Returned("generateDownloads", <<>>,
                [code |-> 200,
                 msg |-> "Success",
                 data |-> [downloads |-> downloads, total |-> Len(downloads)]])

toManifestComponent(component) ==
    [display_name |-> component.display_name,
     download_url |-> component.download_url,
     file_md5 |-> component.file_md5,
     file_name |-> component.file_name,
     file_size |-> component.file_size,
     id |-> component.id,
     is_ui |-> 1,
     logo |-> component.logo,
     name |-> component.name,
     type |-> component.type,
     version |-> component.version,
     version_code |-> component.version_code]

\* what generateManifest gets from getByType(type): the registry's own array
ManifestOfEveryType(type) == getAllComponents
manifestSource(type) == getByType(type)

generateManifest(type) ==
    LET meta == COMPONENT_TYPE_META(type)
        sorted == sortByIdDescending(manifestSource(type)).returned
        manifestComponents == [k \in 1..Len(sorted) |-> toManifestComponent(sorted[k])]
    IN Returned("generateManifest", <<type>>,
                [code |-> 200,
                 msg |-> "Success",
                 data |-> [type |-> type,
                           type_name |-> meta.name,
                           display_name |-> meta.displayName,
                           total |-> Len(manifestComponents),
                           components |-> manifestComponents]])

\* the categories generateIndex pushes for the types first..7
CountsEveryComponent(type) == getTotalCount
categoryCount(type) == getCountByType(type)

RECURSIVE indexCategories(_)
indexCategories(first) ==
    IF first > 7 THEN <<>>
    ELSE <<[count |-> categoryCount(first),
            display_name |-> COMPONENT_TYPE_META(first).displayName,
            manifest_url |-> <<"/components/", COMPONENT_TYPE_META(first).manifest>>,
            name |-> COMPONENT_TYPE_META(first).name,
            type |-> first]>>
         \o indexCategories(first + 1)

generateIndex ==
    Returned("generateIndex", <<>>,
             [code |-> 200,
              msg |-> "Success",
              data |-> [categories |-> indexCategories(1),
                        total_components |-> getTotalCount]])

----------------------------------------------------------------------------
(* The simulator generators.                                               *)

\* the clock when the run starts
ClockStart == 9

\* getTimestamp(): String(Math.floor(Date.now() / 1000))
getTimestamp == NumberToString(clock)

\* a configured timestamp
BuildTimestamp == <<"1", "7">>

toDefaultComponentEntry(component) ==
    [blurb |-> component.blurb,
     display_name |-> component.display_name,
     download_url |-> component.download_url,
     file_md5 |-> component.file_md5,
     file_name |-> component.file_name,
     file_size |-> component.file_size,
     id |-> component.id,
     logo |-> component.logo,
     name |-> component.name,
     type |-> component.type,
     version |-> component.version,
     version_code |-> component.version_code]

createEmptyComponent ==
    [blurb |-> "", display_name |-> "", download_url |-> <<>>, file_md5 |-> <<>>,
     file_name |-> <<>>, file_size |-> StringValue(<<>>), id |-> 0, logo |-> "",
     name |-> "", type |-> 0, version |-> "", version_code |-> 0]

toExecuteComponent(component) ==
    [base_type |-> 0,
     blurb |-> component.blurb,
     display_name |-> component.display_name,
     download_url |-> component.download_url,
     file_md5 |-> component.file_md5,
     file_name |-> component.file_name,
     file_size |-> component.file_size,
     id |-> component.id,
     is_base |-> 0,
     is_ui |-> 1,
     logo |-> component.logo,
     name |-> component.name,
     type |-> component.type,
     version |-> component.version,
     version_code |-> component.version_code]

toImagefsRef(i) ==
    [display_name |-> i.display_name, download_url |-> i.download_url,
     file_md5 |-> i.file_md5, file_name |-> i.file_name, file_size |-> i.file_size,
     id |-> i.id, logo |-> i.logo, name |-> i.name, version |-> i.version,
     version_code |-> i.version_code]

toContainerRef(c) ==
    [blurb |-> "", display_name |-> c.display_name, download_url |-> c.download_url,
     file_md5 |-> c.file_md5, file_name |-> c.file_name, file_size |-> c.file_size,
     framework |-> c.framework, framework_type |-> c.framework_type, id |-> c.id,
     is_steam |-> c.is_steam, logo |-> c.logo, name |-> c.name, sub_data |-> c.sub_data,
     version |-> c.version, version_code |-> c.version_code]


toAllComponentEntry(component) ==
    [display_name |-> component.display_name,
     download_url |-> component.download_url,
     file_md5 |-> component.file_md5,
     file_name |-> component.file_name,
     file_size |-> component.file_size,
     id |-> component.id,
     is_ui |-> 1,
     logo |-> component.logo,
     name |-> component.name,
     type |-> component.type,
     version |-> component.version,
     version_code |-> component.version_code]

\* no parser sets gpu_range, so that component.gpu_range ?? '' is ''
ListEntryWithoutGpuRange(component) == toDefaultComponentEntry(component)
toComponentListEntry(component) ==
    [blurb |-> component.blurb,
     display_name |-> component.display_name,
     download_url |-> component.download_url,
     file_md5 |-> component.file_md5,
     file_name |-> component.file_name,
     file_size |-> component.file_size,
     gpu_range |-> "",
     id |-> component.id,
     logo |-> component.logo,
     name |-> component.name,
     type |-> component.type,
     version |-> component.version,
     version_code |-> component.version_code]

generateAllComponentList(stamp) ==
    LET sorted == sortByTypeAndIdDescending(getAllComponents).returned
        list == [k \in 1..Len(sorted) |-> toAllComponentEntry(sorted[k])]
    IN Returned("generateAllComponentList", <<stamp>>,
                [code |-> 200,
                 msg |-> "Success",
                 data |-> [list |-> list, total |-> Len(list)],
                 time |-> IF stamp = <<>> THEN getTimestamp ELSE stamp])

\* what generateComponentList gets from getByType(ComponentType.BOX64_FEX)
type1Components == getByType(1)

\* the part of the sorted array that generateComponentList lists: all of it
FirstPage(sorted) == SubSeq(sorted, 1, IF Len(sorted) < 10 THEN Len(sorted) ELSE 10)
listed(sorted) == sorted

generateComponentList(stamp) ==
    LET sorted == listed(sortByIdDescending(type1Components).returned)
        list == [k \in 1..Len(sorted) |-> toComponentListEntry(sorted[k])]
    IN Returned("generateComponentList", <<stamp>>,
                [code |-> 200,
                 msg |-> "Success",
                 data |-> [list |-> list, total |-> Len(list), page |-> 1, pageSize |-> 10],
                 time |-> IF stamp = <<>> THEN getTimestamp ELSE stamp])

toOrderedContainer(c) ==
    [display_name |-> c.display_name, download_url |-> c.download_url,
     file_md5 |-> c.file_md5, file_name |-> c.file_name, file_size |-> c.file_size,
     framework |-> c.framework, framework_type |-> c.framework_type, id |-> c.id,
     is_steam |-> c.is_steam, logo |-> c.logo, name |-> c.name, sub_data |-> c.sub_data,
     version |-> c.version, version_code |-> c.version_code]

generateContainerList(stamp) ==
    Returned("generateContainerList", <<stamp>>,
             [code |-> 200,
              msg |-> "Success",
              data |-> [k \in 1..Len(containers) |-> toOrderedContainer(containers[k])],
              time |-> IF stamp = <<>> THEN getTimestamp ELSE stamp])

generateImagefsDetail(stamp) ==
    IF imagefs = NULL THEN Threw("generateImagefsDetail", <<stamp>>, "TypeError")
    ELSE Returned("generateImagefsDetail", <<stamp>>,
             [code |-> 200,
              msg |-> "Success",
              data |-> [id |-> imagefs.id, version |-> imagefs.version,
                        version_code |-> imagefs.version_code, name |-> imagefs.name,
                        logo |-> imagefs.logo, upgrade_msg |-> imagefs.upgrade_msg,
                        blurb |-> imagefs.blurb, download_url |-> imagefs.download_url,
                        file_md5 |-> imagefs.file_md5, file_size |-> imagefs.file_size,
                        file_name |-> imagefs.file_name,
                        display_name |-> imagefs.display_name],
              time |-> IF stamp = <<>> THEN getTimestamp ELSE stamp])

\* the three lookups of generateDefaultComponent
dxvkLookup == getById(defaults.dxvk)
vkd3dLookup == getById(defaults.vkd3d)
LooksUpDxvkAgain == getById(defaults.dxvk)
steamClientLookup == getById(defaults.steamClient)

generateDefaultComponent(stamp) ==
    IF defaults = NULL THEN Threw("generateDefaultComponent", <<stamp>>, "TypeError")
    ELSE LET dxvk == dxvkLookup
             vkd3d == vkd3dLookup
             steamClient == steamClientLookup
         IN IF dxvk = UNDEFINED \/ vkd3d = UNDEFINED \/ steamClient = UNDEFINED
            THEN Threw("generateDefaultComponent", <<stamp>>, "Error")
            ELSE Returned("generateDefaultComponent", <<stamp>>,
                    [code |-> 200,
                     msg |-> "Success",
                     data |-> [container |-> NULL,
                               gpu |-> NULL,
                               dxvk |-> toDefaultComponentEntry(dxvk),
                               vkd3d |-> toDefaultComponentEntry(vkd3d),
                               translator |-> createEmptyComponent,
                               steamClient |-> toDefaultComponentEntry(steamClient)],
                     time |-> IF stamp = <<>> THEN getTimestamp ELSE stamp])

\* registry.containers.find((c) => c.id === id)
TakesFirstContainer(id) == IF Len(containers) = 0 THEN UNDEFINED ELSE containers[1]
findContainer(id) ==
    IF \E i \in 1..Len(containers) : containers[i].id = id
    THEN containers[CHOOSE i \in 1..Len(containers) :
                        /\ containers[i].id = id
                        /\ \A j \in 1..(i - 1) : containers[j].id # id]
    ELSE UNDEFINED

\* the loop of generateExecuteScript over the component ids
RECURSIVE StopsAtUnregistered(_)
StopsAtUnregistered(componentIds) ==
    IF componentIds = <<>> THEN <<>>
    ELSE IF getById(Head(componentIds)) # UNDEFINED
         THEN <<toExecuteComponent(getById(Head(componentIds)))>>
              \o StopsAtUnregistered(Tail(componentIds))
         ELSE <<>>
RECURSIVE executeComponents(_)
executeComponents(componentIds) ==
    IF componentIds = <<>> THEN <<>>
    ELSE (IF getById(Head(componentIds)) # UNDEFINED
          THEN <<toExecuteComponent(getById(Head(componentIds)))>> ELSE <<>>)
         \o executeComponents(Tail(componentIds))

generateExecuteScript(variant, stamp) ==
    IF defaults = NULL
    THEN Threw("generateExecuteScript", <<variant, stamp>>, "TypeError")
    ELSE LET container == findContainer(defaults.container)
             componentIds == IF variant = "generic" THEN defaults.genericComponentIds
                             ELSE defaults.qualcommComponentIds
             executionContext == IF variant = "generic" THEN defaults.genericContext
                                 ELSE defaults.qualcommContext
             list == executeComponents(componentIds)
         IN IF container = UNDEFINED
            THEN Threw("generateExecuteScript", <<variant, stamp>>, "Error")
            ELSE IF executionConfig = NULL \/ imagefs = NULL
                 THEN Threw("generateExecuteScript", <<variant, stamp>>, "TypeError")
            ELSE Returned("generateExecuteScript", <<variant, stamp>>,
                    [code |-> 200,
                     msg |-> "Success",
                     data |-> [audio_driver |-> executionConfig.audio_driver,
                               component |-> list,
                               component_ids |-> componentIds,
                               container |-> toContainerRef(container),
                               container_id |-> defaults.container,
                               controller |-> executionConfig.controller,
                               cpu_limitations |-> executionConfig.cpu_limitations,
                               directx_panel |-> executionConfig.directx_panel,
                               environment |-> executionConfig.environment,
                               execution_context |-> executionContext,
                               imagefs |-> toImagefsRef(imagefs),
                               launch_windowed_mode |-> executionConfig.launch_windowed_mode,
                               start_param |-> executionConfig.start_param,
                               translations |-> executionConfig.translations,
                               video_memory |-> executionConfig.video_memory],
                     time |-> IF stamp = <<>> THEN getTimestamp ELSE stamp])

----------------------------------------------------------------------------
(* The order in which the object literals of the generators list their keys, *)
(* which is the order JSON.stringify emits them in.                          *)

toDownloadEntryKeys ==
    <<"download_url", "file_md5", "file_name", "file_size", "name",
      "type", "version">>

toManifestComponentKeys ==
    <<"display_name", "download_url", "file_md5", "file_name",
      "file_size", "id", "is_ui", "logo", "name", "type", "version",
      "version_code">>

toAllComponentEntryKeys ==
    <<"display_name", "download_url", "file_md5", "file_name",
      "file_size", "id", "is_ui", "logo", "name", "type", "version",
      "version_code">>

toComponentListEntryKeys ==
    <<"blurb", "display_name", "download_url", "file_md5", "file_name",
      "file_size", "gpu_range", "id", "logo", "name", "type", "version",
      "version_code">>

toDefaultComponentEntryKeys ==
    <<"blurb", "display_name", "download_url", "file_md5", "file_name",
      "file_size", "id", "logo", "name", "type", "version", "version_code">>

createEmptyComponentKeys ==
    <<"blurb", "display_name", "download_url", "file_md5", "file_name",
      "file_size", "id", "logo", "name", "type", "version", "version_code">>

IdComesFirst ==
    <<"id", "base_type", "blurb", "display_name", "download_url", "file_md5",
      "file_name", "file_size", "is_base", "is_ui", "logo", "name", "type",
      "version", "version_code">>
toExecuteComponentKeys ==
    <<"base_type", "blurb", "display_name", "download_url", "file_md5",
      "file_name", "file_size", "id", "is_base", "is_ui", "logo", "name",
      "type", "version", "version_code">>

executeScriptDataKeys ==
    <<"audio_driver", "component", "component_ids", "container",
      "container_id", "controller", "cpu_limitations", "directx_panel",
      "environment", "execution_context", "imagefs",
      "launch_windowed_mode", "start_param", "translations",
      "video_memory">>

----------------------------------------------------------------------------
(* The run.                                                                *)

Init ==
    /\ pc = "xml"
    /\ merged = <<>>
    /\ components = <<>>
    /\ componentsByType = [t \in ComponentTypes |-> <<>>]
    /\ componentsByName = <<>>
    /\ containers = <<>>
    /\ imagefs = NULL
    /\ defaults = NULL
    /\ executionConfig = NULL
    /\ result = Returned("constructor", <<>>, UNDEFINED)
    /\ sortIn = <<>>
    /\ sortOut = <<>>
    /\ config = [timestamp |-> BuildTimestamp]
    /\ clock = ClockStart
    /\ timestamp = <<>>
    /\ written = <<>>
    /\ inputFiles = NULL
    /\ command = "build"
    /\ reported = ""
    /\ converter = NULL

\* one more record of the merged list goes through addComponents
Register(component, source) ==
    /\ merged' = Append(merged, [source |-> source, component |-> component])
    /\ addComponent(component)
    /\ pc' = IF result'.threw THEN "crashed" ELSE pc
    /\ UNCHANGED <<containers, imagefs, defaults, executionConfig, sortIn, sortOut, run>>

AddRecord(component, source) ==
    /\ Len(merged) < MaxAdds
    /\ Register(component, source)

AddXmlComponent(entries) ==
    /\ pc = "xml"
    /\ \E entry \in entries :
          /\ parseXmlEntry(entry) # UNDEFINED
          /\ AddRecord(parseXmlEntry(entry), "xml")

EndOfXml ==
    /\ pc = "xml"
    /\ pc' = "custom"
    /\ UNCHANGED <<merged, registry, result, sortIn, sortOut, run>>

AddCustomComponent(definitions) ==
    /\ pc = "custom"
    /\ \E custom \in definitions : AddRecord(parseCustomDefinition(custom), "custom")

\* addComponents returns: the merged list is not read again
EndOfCustom ==
    /\ pc = "custom"
    /\ pc' = "static"
    /\ merged' = <<>>
    /\ UNCHANGED <<registry, result, sortIn, sortOut, run>>

\* the four assignments of build() that follow addComponents
LoadStaticData(files) ==
    /\ pc = "static"
    /\ \E data \in files :
          /\ containers' = data.containers
          /\ imagefs' = data.imagefs
          /\ defaults' = data.defaults
          /\ executionConfig' = data.executionConfig
    /\ pc' = "ready"
    /\ result' = Returned("loadJson", <<>>, UNDEFINED)
    /\ UNCHANGED <<merged, components, componentsByType, componentsByName, sortIn, sortOut, run>>

\* a call on the loaded registry leaves it as it is and yields a result
Call(value) ==
    /\ pc = "ready"
    /\ result' = value
    /\ UNCHANGED <<pc, merged, registry, sortIn, sortOut, run>>

Validate == Call(Returned("validate", <<>>, validate))

GenerateDefaultComponent == Call(generateDefaultComponent(BuildTimestamp))

GenerateExecuteScript == \E variant \in {"generic", "qualcomm"} :
    Call(generateExecuteScript(variant, BuildTimestamp))

Next ==
    \/ AddXmlComponent(XmlEntries)
    \/ EndOfXml
    \/ AddCustomComponent(CustomDefinitions)
    \/ EndOfCustom
    \/ LoadStaticData(StaticData)
    \/ Validate
    \/ GenerateDefaultComponent
    \/ GenerateExecuteScript

Spec == Init /\ [][Next]_vars

\* the same run over records that vary the file descriptor
NextFields ==
    \/ AddXmlComponent(XmlFieldEntries)
    \/ EndOfXml
    \/ AddCustomComponent(CustomFieldDefinitions)
    \/ EndOfCustom
    \/ LoadStaticData(FieldStaticData)
    \/ Validate
    \/ GenerateDefaultComponent
    \/ GenerateExecuteScript

SpecFields == Init /\ [][NextFields]_vars

----------------------------------------------------------------------------
(* Every generator, called in any order on the loaded registry.             *)

\* a call that was handed one of the registry's own arrays: the partition is
\* afterwards what the call left in that array
CallOnPartition(type, value, array) ==
    /\ pc = "ready"
    /\ result' = value
    /\ componentsByType' = [componentsByType EXCEPT ![type] = array]
    /\ UNCHANGED <<pc, merged, components, componentsByName, containers, imagefs,
                   defaults, executionConfig, sortIn, sortOut, run>>

GenerateManifest == \E type \in ComponentTypes :
    CallOnPartition(type, generateManifest(type),
                    sortByIdDescending(manifestSource(type)).argument)

GenerateIndex == Call(generateIndex)

GenerateDownloads == Call(generateDownloads)

GenerateAllComponentList == Call(generateAllComponentList(BuildTimestamp))

GenerateComponentList ==
    CallOnPartition(1, generateComponentList(BuildTimestamp),
                    sortByIdDescending(type1Components).argument)

GenerateContainerList == Call(generateContainerList(BuildTimestamp))

GenerateImagefsDetail == Call(generateImagefsDetail(BuildTimestamp))

SoundStatic == Static(SoundContainers, TheImagefs, SoundDefaults, TheExecutionConfig)

NextDocs ==
    \/ AddXmlComponent(XmlEntries)
    \/ EndOfXml
    \/ AddCustomComponent(CustomDefinitions)
    \/ EndOfCustom
    \/ LoadStaticData({SoundStatic, Static(<<>>, NULL, NULL, NULL)})
    \/ Validate
    \/ GenerateManifest
    \/ GenerateIndex
    \/ GenerateDownloads
    \/ GenerateAllComponentList
    \/ GenerateComponentList
    \/ GenerateContainerList
    \/ GenerateDefaultComponent
    \/ GenerateImagefsDetail
    \/ GenerateExecuteScript

SpecDocs == Init /\ [][NextDocs]_vars

----------------------------------------------------------------------------
(* A primary catalog longer than one page of getComponentList.              *)

\* the next entry of the long catalog: ids count up, the type is free
AddListedComponent ==
    /\ pc = "xml"
    /\ Len(merged) < MaxListLen
    /\ \E type \in SourceTypes :
          Register(parseXmlEntry(XmlEntry(Len(merged) + 1, "a", type, XmlBasePayload)), "xml")

NextList ==
    \/ AddListedComponent
    \/ EndOfXml
    \/ EndOfCustom
    \/ LoadStaticData({SoundStatic})
    \/ GenerateComponentList

SpecList == Init /\ [][NextList]_vars

----------------------------------------------------------------------------
(* build(): validation, the timestamp, and the output files in their order. *)

InitBuild ==
    /\ pc = "xml"
    /\ merged = <<>>
    /\ components = <<>>
    /\ componentsByType = [t \in ComponentTypes |-> <<>>]
    /\ componentsByName = <<>>
    /\ containers = <<>>
    /\ imagefs = NULL
    /\ defaults = NULL
    /\ executionConfig = NULL
    /\ result = Returned("constructor", <<>>, UNDEFINED)
    /\ sortIn = <<>>
    /\ sortOut = <<>>
    /\ config \in {[timestamp |-> <<>>], [timestamp |-> BuildTimestamp]}
    /\ clock = ClockStart
    /\ timestamp = <<>>
    /\ written = <<>>
    /\ inputFiles = NULL
    /\ command = "build"
    /\ reported = ""
    /\ converter = NULL

\* a second passes
Tick ==
    /\ pc \in {"ready", "validated", "generating"}
    /\ clock < ClockStart + MaxTicks
    /\ clock' = clock + 1
    /\ UNCHANGED <<pc, merged, registry, result, sortIn, sortOut, config, timestamp, written,
                   inputFiles, command, reported, converter>>

\* step 5 without its process.exit(1)
ContinuesAfterErrors ==
    /\ pc = "ready"
    /\ result' = Returned("validate", <<>>, validate)
    /\ pc' = "validated"
    /\ UNCHANGED <<merged, registry, sortIn, sortOut, run>>

\* step 5 of build(): process.exit(1) unless the registry is valid
BuildValidate ==
    /\ pc = "ready"
    /\ result' = Returned("validate", <<>>, validate)
    /\ pc' = IF validate.valid THEN "validated" ELSE "exited"
    /\ UNCHANGED <<merged, registry, sortIn, sortOut, run>>

\* step 6 of build(): config.timestamp || String(Math.floor(Date.now() / 1000))
TakeTimestamp ==
    /\ pc = "validated"
    /\ timestamp' = IF config.timestamp = <<>> THEN NumberToString(clock)
                    ELSE config.timestamp
    /\ pc' = "generating"
    /\ UNCHANGED <<merged, registry, result, sortIn, sortOut, config, clock, written,
                   inputFiles, command, reported, converter>>

\* the timestamp build() hands to a simulator generator
HandsOverNothing == <<>>
timestampArgument == timestamp

\* the directory and name of the k-th output file
BuildOrder ==
    [k \in 1..7 |-> <<"components", COMPONENT_TYPE_META(k).manifest>>]
    \o <<<<"components", "index">>,
         <<"components", "downloads">>,
         <<"simulator/v2", "getAllComponentList">>,
         <<"simulator/v2", "getComponentList">>,
         <<"simulator/v2", "getContainerList">>,
         <<"simulator/v2", "getDefaultComponent">>,
         <<"simulator/v2", "getImagefsDetail">>,
         <<"simulator/executeScript", "generic">>,
         <<"simulator/executeScript", "qualcomm">>>>

\* the call that yields the k-th output file
BuildDocument(k) ==
    CASE k \in 1..7 -> generateManifest(k)
      [] k = 8 -> generateIndex
      [] k = 9 -> generateDownloads
      [] k = 10 -> generateAllComponentList(timestampArgument)
      [] k = 11 -> generateComponentList(timestampArgument)
      [] k = 12 -> generateContainerList(timestampArgument)
      [] k = 13 -> generateDefaultComponent(timestampArgument)
      [] k = 14 -> generateImagefsDetail(timestampArgument)
      [] k = 15 -> generateExecuteScript("generic", timestampArgument)
      [] k = 16 -> generateExecuteScript("qualcomm", timestampArgument)

\* the partition of type after the k-th call
PartitionAfter(k, type) ==
    IF k \in 1..7 /\ type = k THEN sortByIdDescending(manifestSource(type)).argument
    ELSE IF k = 11 /\ type = 1 THEN sortByIdDescending(type1Components).argument
    ELSE componentsByType[type]

\* step 7 of build(): the next output file is generated and written
WriteOutput ==
    /\ pc = "generating"
    /\ Len(written) < Len(BuildOrder)
    /\ LET k == Len(written) + 1
           call == BuildDocument(k)
       IN /\ result' = call
          /\ componentsByType' = [type \in ComponentTypes |-> PartitionAfter(k, type)]
          /\ IF call.threw
             THEN /\ pc' = "crashed"
                  /\ written' = written
             ELSE /\ pc' = pc
                  /\ written' = Append(written,
                        [path |-> BuildOrder[k],
                         stamped |-> "time" \in DOMAIN call.value,
                         time |-> IF "time" \in DOMAIN call.value THEN call.value.time
                                  ELSE <<>>])
    /\ UNCHANGED <<merged, components, componentsByName, containers, imagefs, defaults,
                   executionConfig, sortIn, sortOut, config, clock, timestamp,
                   inputFiles, command, reported, converter>>

\* OriginalComponentInfo.githubFileName: the file name as the release stores it
githubFileName(fileName) ==
    [i \in 1..Len(fileName) |-> IF fileName[i] = " " THEN "." ELSE fileName[i]]

\* registry.getAllOriginalInfo()
getAllOriginalInfo ==
    [i \in 1..Len(components) |->
        [id |-> components[i].id, name |-> components[i].name,
         githubFileName |-> githubFileName(components[i].file_name)]]

\* what `gh release view` may answer: it fails, or it lists the release's assets
Fetches ==
    {[ok |-> FALSE, assets |-> {}]}
    \cup {[ok |-> TRUE, assets |-> a] : a \in SUBSET {FileNameA, githubFileName(FileNameSpace)}}

\* getGitHubReleaseAssets: the asset names, or the empty set when gh fails
getGitHubReleaseAssets(fetch) == IF fetch.ok THEN fetch.assets ELSE {}

\* checkMissingFiles
checkMissingFiles(fetch) ==
    LET githubAssets == getGitHubReleaseAssets(fetch)
        allInfo == getAllOriginalInfo
    IN IF Cardinality(githubAssets) = 0 THEN [missing |-> <<>>, total |-> 0]
       ELSE [missing |-> SelectSeq(allInfo, LAMBDA info : info.githubFileName \notin githubAssets),
             total |-> Len(allInfo)]

\* step 7 of build(), after the last output file: the release is checked;
\* process.exit(1) when a file is missing, otherwise build() returns
CheckMissingFiles ==
    /\ pc = "generating"
    /\ Len(written) = Len(BuildOrder)
    /\ \E fetch \in Fetches :
          LET check == checkMissingFiles(fetch)
              log == IF check.total = 0 THEN "Skipped"
                     ELSE IF Len(check.missing) = 0 THEN "All files exist"
                     ELSE "Build failed"
          IN /\ result' = Returned("checkMissingFiles", <<fetch>>,
                                   [missing |-> check.missing, total |-> check.total,
                                    log |-> log])
             /\ pc' = IF log = "Build failed" THEN "exited" ELSE "complete"
    /\ UNCHANGED <<merged, registry, sortIn, sortOut, run>>

NextBuild ==
    \/ AddXmlComponent(XmlFieldEntries)
    \/ EndOfXml
    \/ AddCustomComponent(CustomFieldDefinitions)
    \/ EndOfCustom
    \/ LoadStaticData(FieldStaticData)
    \/ Tick
    \/ BuildValidate
    \/ TakeTimestamp
    \/ WriteOutput
    \/ CheckMissingFiles

SpecBuild == InitBuild /\ [][NextBuild]_vars

----------------------------------------------------------------------------
(* sortByIdDescending on lists of any components, equal ids included.      *)

SortComponents ==
    {parseXmlEntry(XmlEntry(i, n, 1, XmlBasePayload)) : i \in Ids, n \in Names}

RECURSIVE ListsUpTo(_, _)
ListsUpTo(S, n) ==
    IF n = 0 THEN {<<>>}
    ELSE LET shorter == ListsUpTo(S, n - 1)
         IN shorter \cup {Append(l, x) : l \in shorter, x \in S}

InitSort ==
    /\ pc = "sort"
    /\ merged = <<>>
    /\ components = <<>>
    /\ componentsByType = [t \in ComponentTypes |-> <<>>]
    /\ componentsByName = <<>>
    /\ containers = <<>>
    /\ imagefs = NULL
    /\ defaults = NULL
    /\ executionConfig = NULL
    /\ result = Returned("constructor", <<>>, UNDEFINED)
    /\ sortIn \in ListsUpTo(SortComponents, MaxSortLen)
    /\ sortOut = <<>>
    /\ config = [timestamp |-> BuildTimestamp]
    /\ clock = ClockStart
    /\ timestamp = <<>>
    /\ written = <<>>
    /\ inputFiles = NULL
    /\ command = "build"
    /\ reported = ""
    /\ converter = NULL

SortByIdDescending ==
    /\ pc = "sort"
    /\ LET call == sortByIdDescending(sortIn)
       IN /\ sortIn' = call.argument
          /\ sortOut' = call.returned
          /\ result' = Returned("sortByIdDescending", <<sortIn>>, call.returned)
    /\ pc' = "sorted"
    /\ UNCHANGED <<merged, registry, run>>

NextSort == SortByIdDescending

SpecSort == InitSort /\ [][NextSort]_vars

----------------------------------------------------------------------------
(* The validate command and then build, run on the same data files.        *)

\* the data files: the primary catalog, the override file, the four JSON files
InputFiles ==
    [xml : ListsUpTo(XmlFieldEntries, MaxAdds - 1),
     custom : ListsUpTo(CustomFieldDefinitions, 1),
     static : FieldStaticData]

InitCommands ==
    /\ pc = "xml"
    /\ merged = <<>>
    /\ components = <<>>
    /\ componentsByType = [t \in ComponentTypes |-> <<>>]
    /\ componentsByName = <<>>
    /\ containers = <<>>
    /\ imagefs = NULL
    /\ defaults = NULL
    /\ executionConfig = NULL
    /\ result = Returned("constructor", <<>>, UNDEFINED)
    /\ sortIn = <<>>
    /\ sortOut = <<>>
    /\ config = [timestamp |-> BuildTimestamp]
    /\ clock = ClockStart
    /\ timestamp = <<>>
    /\ written = <<>>
    /\ inputFiles \in InputFiles
    /\ command = "validate"
    /\ reported = ""
    /\ converter = NULL

\* the catalog is consumed: build goes on to the override file, validate
\* registers nothing else
EndOfXmlFile ==
    /\ pc = "xml"
    /\ Len(merged) = Len(inputFiles.xml)
    /\ pc' = IF command = "build" THEN "custom" ELSE "static"
    /\ merged' = IF command = "build" THEN merged ELSE <<>>
    /\ UNCHANGED <<registry, result, sortIn, sortOut, run>>

\* validate(config): registry.validate(), then the report; process.exit(1) on errors
ValidateCommand ==
    /\ pc = "ready"
    /\ command = "validate"
    /\ result' = Returned("validate", <<>>, validate)
    /\ reported' = IF validate.valid THEN "passed" ELSE "failed"
    /\ pc' = IF validate.valid THEN "complete" ELSE "exited"
    /\ UNCHANGED <<merged, registry, sortIn, sortOut, config, clock, timestamp, written,
                   inputFiles, command, converter>>

\* the process has ended; build is started on the same files
StartBuild ==
    /\ pc \in {"complete", "exited"}
    /\ command = "validate"
    /\ command' = "build"
    /\ pc' = "xml"
    /\ merged' = <<>>
    /\ components' = <<>>
    /\ componentsByType' = [t \in ComponentTypes |-> <<>>]
    /\ componentsByName' = <<>>
    /\ containers' = <<>>
    /\ imagefs' = NULL
    /\ defaults' = NULL
    /\ executionConfig' = NULL
    /\ result' = Returned("constructor", <<>>, UNDEFINED)
    /\ UNCHANGED <<sortIn, sortOut, config, clock, timestamp, written, inputFiles, reported,
                   converter>>

\* either command registers the next entry of the catalog; build goes on with
\* the next record of the override file; both load the four JSON files
NextCommands ==
    \/ /\ Len(merged) < Len(inputFiles.xml)
       /\ AddXmlComponent({inputFiles.xml[Len(merged) + 1]})
    \/ EndOfXmlFile
    \/ /\ Len(merged) - Len(inputFiles.xml) < Len(inputFiles.custom)
       /\ AddCustomComponent({inputFiles.custom[Len(merged) - Len(inputFiles.xml) + 1]})
    \/ /\ Len(merged) = Len(inputFiles.xml) + Len(inputFiles.custom)
       /\ EndOfCustom
    \/ LoadStaticData({inputFiles.static})
    \/ ValidateCommand
    \/ StartBuild
    \/ command = "build" /\ BuildValidate
    \/ TakeTimestamp
    \/ WriteOutput

SpecCommands == InitCommands /\ [][NextCommands]_vars

----------------------------------------------------------------------------
(* The driver converter (scripts/convert-drivers.ts): one run of main().   *)

\* the most entries the drivers directory holds
MaxZips == 3

COMPONENT_TYPE_GPU_DRIVER == 2

\* findNextId's baseId
BaseId == 990

DotZip == <<".", "z", "i", "p">>
DotTzst == <<".", "t", "z", "s", "t">>

\* String.prototype.endsWith
endsWith(s, suffix) ==
    /\ Len(s) >= Len(suffix)
    /\ SubSeq(s, Len(s) - Len(suffix) + 1, Len(s)) = suffix

\* path.basename(path, suffix) of a bare file name; a name equal to the suffix
\* is kept whole
basename(path, suffix) ==
    IF endsWith(path, suffix) /\ Len(path) > Len(suffix)
    THEN SubSeq(path, 1, Len(path) - Len(suffix))
    ELSE path

\* parseInt(digits, 10) of a run of decimal digits
RECURSIVE parseInt(_)
parseInt(digits) ==
    IF digits = <<>> THEN 0
    ELSE 10 * parseInt(SubSeq(digits, 1, Len(digits) - 1))
         + (CHOOSE d \in 0..9 : DigitChar(d) = digits[Len(digits)])

\* findNextId without the scan of the XML catalog
CountsCustomIdsOnly(customComponents, xml) ==
    LET MaxOf(ids) == CHOOSE m \in ids : \A n \in ids : n <= m
        customMaxId ==
            MaxOf({customComponents[i].id : i \in 1..Len(customComponents)} \cup {0})
    IN  IF customMaxId >= BaseId THEN customMaxId + 1 ELSE BaseId

\* findNextId(components, xmlPath); xml is the catalog file at xmlPath: whether
\* it exists, and the ids its text carries, each written "id":<digits> as the
\* catalog's compact JSON has them.  The captures of /"id":(\d+)/g are those
\* digit runs.
findNextId(customComponents, xml) ==
    LET MaxOf(ids) == CHOOSE m \in ids : \A n \in ids : n <= m
        customMaxId ==
            MaxOf({customComponents[i].id : i \in 1..Len(customComponents)} \cup {0})
        idMatches == [i \in 1..Len(xml.ids) |-> NumberToString(xml.ids[i])]
        xmlMaxId ==
            IF xml.exists
            THEN MaxOf({parseInt(idMatches[i]) : i \in 1..Len(idMatches)} \cup {0})
            ELSE 0
        maxExisting == IF customMaxId >= xmlMaxId THEN customMaxId ELSE xmlMaxId
    IN  IF maxExisting >= BaseId THEN maxExisting + 1 ELSE BaseId

\* Before a run: the drivers directory (whether it exists, and its entries in
\* the order readdirSync lists them), custom_components.json, and the XML
\* catalog.
InitConvert ==
    LET Entries == {<<"a">> \o DotZip, <<"b">> \o DotZip, <<"c">> \o DotZip,
                    <<"n", ".", "t", "x", "t">>}
        Listings == {l \in ListsUpTo(Entries, MaxZips) :
                        \A i, j \in 1..Len(l) : l[i] = l[j] => i = j}
        Driver(id, name, fileName) ==
            [id |-> id, name |-> name, type |-> COMPONENT_TYPE_GPU_DRIVER,
             version |-> <<"1">>, version_code |-> 1, file_name |-> fileName,
             file_md5 |-> Rep("a", Md5Len), file_size |-> <<"1">>]
        Known == <<Driver(5, <<"a">>, <<"a">> \o DotTzst),
                   Driver(BaseId, <<"x">>, <<"b">> \o DotTzst),
                   Driver(BaseId + 2, <<"c">>, <<"y">> \o DotTzst),
                   Driver(BaseId + 1, <<"z">>, <<"z">> \o DotTzst)>>
        Files == {SelectSeq(Known, LAMBDA c : c.id \in keep) :
                     keep \in SUBSET {5, BaseId, BaseId + 1, BaseId + 2}}
        Catalogs == {[exists |-> FALSE, ids |-> <<>>],
                     [exists |-> TRUE, ids |-> <<>>],
                     [exists |-> TRUE, ids |-> <<7, BaseId - 1>>],
                     [exists |-> TRUE, ids |-> <<BaseId + 5, 3>>]}
    IN  /\ pc = "main"
        /\ merged = <<>>
        /\ components = <<>>
        /\ componentsByType = [t \in ComponentTypes |-> <<>>]
        /\ componentsByName = <<>>
        /\ containers = <<>>
        /\ imagefs = NULL
        /\ defaults = NULL
        /\ executionConfig = NULL
        /\ result = Returned("constructor", <<>>, UNDEFINED)
        /\ sortIn = <<>>
        /\ sortOut = <<>>
        /\ config = [timestamp |-> BuildTimestamp]
        /\ clock = ClockStart
        /\ timestamp = <<>>
        /\ written = <<>>
        /\ inputFiles = NULL
        /\ command = "build"
        /\ reported = ""
        /\ \E directory \in {[exists |-> FALSE, entries |-> <<>>]}
                             \cup {[exists |-> TRUE, entries |-> l] : l \in Listings},
              file \in Files, xml \in Catalogs :
              converter = [directory |-> directory, file |-> file, xml |-> xml,
                           writes |-> 0, zipFiles |-> <<>>,
                           customComponentsData |-> <<>>, nextId |-> 0,
                           newComponents |-> <<>>, at |-> 1, log |-> <<>>]

\* main() up to its loop: return when the directory is missing or holds no
\* .zip file, else load custom_components.json and find the starting id
ReadDrivers ==
    /\ pc = "main"
    /\ LET zipFiles == IF ~converter.directory.exists THEN <<>>
                       ELSE SelectSeq(converter.directory.entries,
                                      LAMBDA f : endsWith(f, DotZip))
       IN  IF Len(zipFiles) = 0
           THEN /\ pc' = "returned"
                /\ UNCHANGED converter
           ELSE /\ pc' = "zips"
                /\ converter' =
                     [converter EXCEPT
                        !.zipFiles = zipFiles,
                        !.customComponentsData = converter.file,
                        !.nextId = findNextId(converter.file, converter.xml)]
    /\ UNCHANGED <<merged, registry, result, sortIn, sortOut, config, clock, timestamp,
                   written, inputFiles, command, reported>>

\* one pass of the loop over zipFiles: skip a driver the file already names,
\* else convert; a conversion that throws is logged and the loop goes on
ConvertZip ==
    /\ pc = "zips"
    /\ converter.at <= Len(converter.zipFiles)
    /\ LET zipFile == converter.zipFiles[converter.at]
           driverName == basename(zipFile, DotZip)
           known == converter.customComponentsData
           exists == \E i \in 1..Len(known) :
                        \/ known[i].name = driverName
                        \/ known[i].file_name = driverName \o DotTzst
           component == [id |-> converter.nextId, name |-> driverName,
                         type |-> COMPONENT_TYPE_GPU_DRIVER,
                         version |-> <<"1", ".", "0", ".", "0">>,
                         version_code |-> 1,
                         file_name |-> driverName \o DotTzst,
                         file_md5 |-> Rep("b", Md5Len), file_size |-> <<"2">>]
       IN  IF exists
           THEN converter' = [converter EXCEPT
                                !.at = @ + 1,
                                !.log = Append(@, "Skipping")]
           ELSE \E converts \in BOOLEAN :
                   IF converts
                   THEN converter' = [converter EXCEPT
                                        !.at = @ + 1,
                                        !.nextId = @ + 1,
                                        !.newComponents = Append(@, component),
                                        !.log = Append(@, "Created")]
                   ELSE converter' = [converter EXCEPT
                                        !.at = @ + 1,
                                        !.log = Append(@, "Failed")]
    /\ UNCHANGED <<pc, merged, registry, result, sortIn, sortOut, config, clock,
                   timestamp, written, inputFiles, command, reported>>

\* after the loop: return when nothing was converted, else push the new
\* components and write custom_components.json
FinishConvert ==
    /\ pc = "zips"
    /\ converter.at > Len(converter.zipFiles)
    /\ pc' = "returned"
    /\ IF Len(converter.newComponents) = 0
       THEN UNCHANGED converter
       ELSE converter' =
              [converter EXCEPT
                 !.customComponentsData = @ \o converter.newComponents,
                 !.file = converter.customComponentsData \o converter.newComponents,
                 !.writes = @ + 1]
    /\ UNCHANGED <<merged, registry, result, sortIn, sortOut, config, clock, timestamp,
                   written, inputFiles, command, reported>>

NextConvert ==
    \/ ReadDrivers
    \/ ConvertZip
    \/ FinishConvert

SpecConvert == InitConvert /\ [][NextConvert]_vars

----------------------------------------------------------------------------
(* What the claims speak of.                                               *)

\* the merged list is being consumed or has just been consumed
ListLive == pc \in {"xml", "custom", "crashed"}

Range(list) == {list[i] : i \in 1..Len(list)}

\* every component the registry holds, through any of its three indexes
Held ==
    Range(components)
    \cup UNION {Range(componentsByType[t]) : t \in DOMAIN componentsByType}
    \cup {componentsByName[n] : n \in DOMAIN componentsByName}

\* the registered component c is the source record r, but for download_url and logo
IsRecord(c, r) ==
    /\ c.id = r.id /\ c.name = r.name /\ c.type = r.type
    /\ c.version = r.version /\ c.version_code = r.version_code
    /\ c.file_name = r.file_name /\ c.file_md5 = r.file_md5 /\ c.file_size = r.file_size
    /\ c.display_name = r.display_name /\ c.blurb = r.blurb

\* the record at place i of a list of records is the first with its id
FirstOfItsId(list, i) == \A j \in 1..(i - 1) : list[j].component.id # list[i].component.id
Accepted(i) == FirstOfItsId(merged, i)

\* the first record of a list of records that carries the id
FirstWithId(list, id) ==
    list[CHOOSE i \in 1..Len(list) : list[i].component.id = id /\ FirstOfItsId(list, i)]

\* C1: every component held by the registry, whichever index reaches it, has
\* download_url = cdnBaseUrl + "/" + file_name and logo = logoUrl, whatever the
\* source record carried.
C1_UrlAndLogoRewritten ==
    \A c \in Held :
        /\ c.download_url = cdnBaseUrl \o <<"/">> \o c.file_name
        /\ c.logo = logoUrl

\* a primary record with another download_url and logo, and a file name with a
\* space, is registered
C1_Witness ==
    /\ ListLive
    /\ \E i \in 1..Len(merged) :
          /\ merged[i].source = "xml"
          /\ merged[i].component.file_name = FileNameSpace
          /\ merged[i].component.download_url # cdnBaseUrl \o <<"/">> \o FileNameSpace
          /\ merged[i].component.logo # logoUrl
          /\ \E c \in Held : IsRecord(c, merged[i].component)

\* C2: addComponent with an id that is already registered raises nothing and
\* leaves the id index, the name index and every type partition as they were
\* (so getTotalCount too), and the id still leads to the first record that
\* carried it.
C2_DuplicateIdIsDiscarded ==
    [][ (/\ Len(merged') = Len(merged) + 1
         /\ has(merged'[Len(merged')].component.id))
        => (/\ ~result'.threw
            /\ UNCHANGED <<components, componentsByType, componentsByName>>
            /\ Len(components') = Len(components)
            /\ \E i \in 1..Len(components') :
                  /\ components'[i].id = merged'[Len(merged')].component.id
                  /\ IsRecord(components'[i],
                              FirstWithId(merged', merged'[Len(merged')].component.id).component)) ]_vars

\* a second record with a registered id, and another name and type, has been handed in
C2_Witness ==
    /\ ListLive
    /\ result.op = "addComponent"
    /\ \E i \in 1..(Len(merged) - 1) :
          /\ merged[i].component.id = merged[Len(merged)].component.id
          /\ merged[i].component.name # merged[Len(merged)].component.name
          /\ merged[i].component.type # merged[Len(merged)].component.type

\* the accepted records of type t among the first n of the merged list, in order
RECURSIVE AcceptedOfType(_, _)
AcceptedOfType(t, n) ==
    IF n = 0 THEN <<>>
    ELSE AcceptedOfType(t, n - 1)
         \o (IF Accepted(n) /\ merged[n].component.type = t THEN <<merged[n]>> ELSE <<>>)

\* C3: for every type t in 1..7, getByType(t) holds exactly the accepted
\* records of type t, in the order of their addComponent calls; primary
\* records come before override records in every partition.
C3_PartitionInCallOrder ==
    ListLive =>
        \A t \in ComponentTypes :
            LET accepted == AcceptedOfType(t, Len(merged))
                partition == getByType(t)
            IN /\ Len(partition) = Len(accepted)
               /\ \A k \in 1..Len(accepted) : IsRecord(partition[k], accepted[k].component)
               /\ \A k, l \in 1..Len(accepted) :
                     k < l => ~(accepted[k].source = "custom" /\ accepted[l].source = "xml")

\* a partition holds a primary and then an override component, and a record
\* between them was discarded
C3_Witness ==
    /\ ListLive
    /\ Len(merged) = 3
    /\ ~Accepted(2)
    /\ \E t \in ComponentTypes :
          /\ Len(getByType(t)) = 2
          /\ IsRecord(getByType(t)[1], merged[1].component)
          /\ IsRecord(getByType(t)[2], merged[3].component)
          /\ merged[1].source = "xml"
          /\ merged[3].source = "custom"

IndexPermutations(n) == {p \in [1..n -> 1..n] : \A i, j \in 1..n : i # j => p[i] # p[j]}

\* C4: sortByIdDescending returns a permutation of the list with ids
\* non-increasing, elements of equal id in the order they had in the list, and
\* leaves the list handed in as it was.
C4_SortByIdDescendingStable ==
    pc = "sorted" =>
        LET input == result.args[1]
            n == Len(input)
        IN /\ sortIn = input
           /\ Len(sortOut) = n
           /\ \A k \in 1..(n - 1) : sortOut[k].id >= sortOut[k + 1].id
           /\ \E p \in IndexPermutations(n) :
                 /\ \A k \in 1..n : sortOut[k] = input[p[k]]
                 /\ \A k, l \in 1..n :
                       (k < l /\ sortOut[k].id = sortOut[l].id) => p[k] < p[l]

\* a list with two different components of one id behind a component of a
\* smaller id has been sorted
C4_Witness ==
    /\ pc = "sorted"
    /\ Len(sortIn) = 3
    /\ sortIn[1].id < sortIn[2].id
    /\ sortIn[2].id = sortIn[3].id
    /\ sortIn[2] # sortIn[3]
    /\ sortOut = <<sortIn[2], sortIn[3], sortIn[1]>>

\* the ids the registry holds
RegisteredIds == {c.id : c \in Range(components)}

\* how often x occurs in a list
Count(list, x) == Cardinality({k \in 1..Len(list) : list[k] = x})

HexDigits ==
    {"0", "1", "2", "3", "4", "5", "6", "7", "8", "9",
     "a", "b", "c", "d", "e", "f", "A", "B", "C", "D", "E", "F"}

\* 32 hexadecimal characters, letters in either case
IsHex32(s) == Len(s) = 32 /\ \A i \in 1..Len(s) : s[i] \in HexDigits

\* the dangling ids of an id list, reported under a message
DanglingIn(ids, msg) == {Error(msg, ids[k]) : k \in {k \in 1..Len(ids) : ids[k] \notin RegisteredIds}}

\* every violation of the registry's state, each as the entry that reports it
Violations ==
    {Error("No components loaded", 0) : x \in {1} \cap {Len(components) + 1}}
    \cup {Error("Imagefs not loaded", 0) : x \in {imagefs} \cap {NULL}}
    \cup {Error("No containers loaded", 0) : x \in {1} \cap {Len(containers) + 1}}
    \cup {Error("Defaults not loaded", 0) : x \in {defaults} \cap {NULL}}
    \cup {Error("Execution config not loaded", 0) : x \in {executionConfig} \cap {NULL}}
    \cup {Error("file_size must be string", c.id) :
            c \in {c \in Range(components) : c.file_size.t # "string"}}
    \cup {Error("invalid MD5 hash", c.id) :
            c \in {c \in Range(components) : ~IsHex32(c.file_md5)}}
    \cup {Error("missing name", c.id) : c \in {c \in Range(components) : c.name = ""}}
    \cup {Error("missing file_name", c.id) :
            c \in {c \in Range(components) : Len(c.file_name) = 0}}
    \cup (IF defaults = NULL THEN {}
          ELSE {Error("Default dxvk ID not found", i) : i \in {defaults.dxvk} \ RegisteredIds}
               \cup {Error("Default vkd3d ID not found", i) :
                       i \in {defaults.vkd3d} \ RegisteredIds}
               \cup {Error("Default steamClient ID not found", i) :
                       i \in {defaults.steamClient} \ RegisteredIds}
               \cup DanglingIn(defaults.genericComponentIds,
                               "Generic script component ID not found")
               \cup DanglingIn(defaults.qualcommComponentIds,
                               "Qualcomm script component ID not found"))

\* C5: validate() does not stop at the first violation: its errors list has an
\* entry for every violation there is (missing datasets, component fields,
\* dangling default references) and no other, and valid is true exactly when
\* the list is empty.
C5_ValidateCollectsEveryViolation ==
    result.op = "validate" =>
        /\ Range(result.value.errors) = Violations
        /\ result.value.valid <=> (result.value.errors = <<>>)
        /\ result.value.valid <=> (Violations = {})

\* validate() has reported a missing dataset, a component field and a dangling
\* default reference in one list
C5_Witness ==
    /\ result.op = "validate"
    /\ Error("Imagefs not loaded", 0) \in Range(result.value.errors)
    /\ Error("No containers loaded", 0) \in Range(result.value.errors)
    /\ \E c \in Range(components) :
          /\ Error("file_size must be string", c.id) \in Range(result.value.errors)
          /\ Error("invalid MD5 hash", c.id) \in Range(result.value.errors)
          /\ Error("missing file_name", c.id) \in Range(result.value.errors)
    /\ Error("Default steamClient ID not found", Unregistered) \in Range(result.value.errors)
    /\ Error("Qualcomm script component ID not found", Unregistered)
          \in Range(result.value.errors)

DecimalDigits == {"0", "1", "2", "3", "4", "5", "6", "7", "8", "9"}

\* a string of decimal digits
IsDigitString(v) == v.t = "string" /\ \A i \in 1..Len(v.s) : v.s[i] \in DecimalDigits

\* C7 as stated: validate() reports a file_size error for every registered
\* component whose file_size is not a string of decimal digits.
C7_FileSizeErrorUnlessDigits ==
    result.op = "validate" =>
        \A c \in Range(components) :
            ~IsDigitString(c.file_size)
               => Error("file_size must be string", c.id) \in Range(result.value.errors)

\* C7, amended: validate() reports a file_size error for a registered component
\* exactly when its file_size is not of type string, whatever the string holds;
\* an override record whose file_size is a number reaches the registry as a
\* number and is reported, a primary entry's file_size reaches it as a string.
C7_FileSizeErrorIffNotString ==
    /\ result.op = "validate" =>
          \A c \in Range(components) :
              Count(result.value.errors, Error("file_size must be string", c.id))
                 = IF c.file_size.t = "string" THEN 0 ELSE 1
    /\ \A custom \in CustomFieldDefinitions :
          custom.file_size.t = "number"
             => parseCustomDefinition(custom).file_size.t = "number"
    /\ \A entry \in XmlFieldEntries :
          parseXmlEntry(entry) # UNDEFINED => parseXmlEntry(entry).file_size.t = "string"

\* validate() has reported a numeric file_size and accepted the string "1x"
C7_Witness ==
    /\ result.op = "validate"
    /\ \E c, d \in Range(components) :
          /\ c.file_size = NumberValue(12)
          /\ Error("file_size must be string", c.id) \in Range(result.value.errors)
          /\ d.file_size = StringValue(<<"1", "x">>)
          /\ Error("file_size must be string", d.id) \notin Range(result.value.errors)

\* the entries of an id list that validate() must report under a message
ListErrorsAsClaimed(errors, ids, msg) ==
    \A k \in 1..Len(errors) :
        errors[k].msg = msg =>
            /\ errors[k].id \notin RegisteredIds
            /\ Count(errors, errors[k]) = Count(ids, errors[k].id)

\* C8: with defaults loaded, validate() reports one error for each of dxvk,
\* vkd3d and steamClient that is no registered id, one error for every place
\* of genericComponentIds and of qualcommComponentIds that holds no registered
\* id, and no reference error for a registered id.
C8_DanglingDefaultsReported ==
    (result.op = "validate" /\ defaults # NULL) =>
        LET errors == result.value.errors
            generic == "Generic script component ID not found"
            qualcomm == "Qualcomm script component ID not found"
            single(msg, id) ==
                /\ Count(errors, Error(msg, id)) = IF id \in RegisteredIds THEN 0 ELSE 1
                /\ \A k \in 1..Len(errors) : errors[k].msg = msg => errors[k].id = id
        IN /\ single("Default dxvk ID not found", defaults.dxvk)
           /\ single("Default vkd3d ID not found", defaults.vkd3d)
           /\ single("Default steamClient ID not found", defaults.steamClient)
           /\ \A k \in 1..Len(defaults.genericComponentIds) :
                 LET id == defaults.genericComponentIds[k]
                 IN Count(errors, Error(generic, id))
                       = IF id \in RegisteredIds THEN 0
                         ELSE Count(defaults.genericComponentIds, id)
           /\ \A k \in 1..Len(defaults.qualcommComponentIds) :
                 LET id == defaults.qualcommComponentIds[k]
                 IN Count(errors, Error(qualcomm, id))
                       = IF id \in RegisteredIds THEN 0
                         ELSE Count(defaults.qualcommComponentIds, id)
           /\ ListErrorsAsClaimed(errors, defaults.genericComponentIds, generic)
           /\ ListErrorsAsClaimed(errors, defaults.qualcommComponentIds, qualcomm)

\* validate() has reported a dangling vkd3d beside a resolving dxvk, and a
\* dangling id that the qualcomm list holds twice
C8_Witness ==
    /\ result.op = "validate"
    /\ defaults # NULL
    /\ defaults.dxvk \in RegisteredIds
    /\ defaults.vkd3d \notin RegisteredIds
    /\ Error("Default vkd3d ID not found", defaults.vkd3d) \in Range(result.value.errors)
    /\ Count(defaults.qualcommComponentIds, Unregistered) = 2
    /\ Count(result.value.errors,
             Error("Qualcomm script component ID not found", Unregistered)) = 2

\* a document entry carries the twelve fields of the registered component of the id
IsEntryOf(entry, id) ==
    \E c \in Range(components) :
        /\ c.id = id
        /\ entry.id = c.id /\ entry.name = c.name /\ entry.type = c.type
        /\ entry.version = c.version /\ entry.version_code = c.version_code
        /\ entry.file_name = c.file_name /\ entry.file_md5 = c.file_md5
        /\ entry.file_size = c.file_size /\ entry.download_url = c.download_url
        /\ entry.logo = c.logo /\ entry.display_name = c.display_name
        /\ entry.blurb = c.blurb

\* C9: generateDefaultComponent raises and returns no document when one of
\* defaults.dxvk, defaults.vkd3d, defaults.steamClient is no registered id;
\* when the three resolve it returns the three components under dxvk, vkd3d
\* and steamClient, the empty translator placeholder (id 0, type 0, empty
\* strings), and container = gpu = null.
C9_DefaultComponentStrict ==
    (result.op = "generateDefaultComponent" /\ defaults # NULL) =>
        /\ result.threw
              <=> ~({defaults.dxvk, defaults.vkd3d, defaults.steamClient} \subseteq RegisteredIds)
        /\ result.threw => result.value = NULL
        /\ ~result.threw =>
              /\ IsEntryOf(result.value.data.dxvk, defaults.dxvk)
              /\ IsEntryOf(result.value.data.vkd3d, defaults.vkd3d)
              /\ IsEntryOf(result.value.data.steamClient, defaults.steamClient)
              /\ result.value.data.translator
                    = [blurb |-> "", display_name |-> "", download_url |-> <<>>,
                       file_md5 |-> <<>>, file_name |-> <<>>,
                       file_size |-> StringValue(<<>>), id |-> 0, logo |-> "",
                       name |-> "", type |-> 0, version |-> "", version_code |-> 0]
              /\ result.value.data.container = NULL
              /\ result.value.data.gpu = NULL

\* generateDefaultComponent has raised over a dangling steamClient alone
C9_Witness ==
    /\ result.op = "generateDefaultComponent"
    /\ defaults # NULL
    /\ defaults.dxvk \in RegisteredIds
    /\ defaults.vkd3d \in RegisteredIds
    /\ defaults.dxvk # defaults.vkd3d
    /\ defaults.steamClient \notin RegisteredIds
    /\ result.threw

\* C10: generateExecuteScript never raises over an unregistered component id:
\* whenever the datasets are loaded and the container resolves it returns, and
\* data.component then holds the entries of the registered ids of the
\* variant's list, in the order of the list, while data.component_ids is the
\* whole list.
C10_ExecuteScriptOmitsUnregistered ==
    result.op = "generateExecuteScript" =>
        LET ids == IF defaults = NULL THEN <<>>
                   ELSE IF result.args[1] = "generic" THEN defaults.genericComponentIds
                   ELSE defaults.qualcommComponentIds
            registered == SelectSeq(ids, LAMBDA id : id \in RegisteredIds)
        IN /\ result.threw =>
                 \/ defaults = NULL \/ imagefs = NULL \/ executionConfig = NULL
                 \/ defaults.container \notin {c.id : c \in Range(containers)}
           /\ ~result.threw =>
                 /\ result.value.data.component_ids = ids
                 /\ Len(result.value.data.component) = Len(registered)
                 /\ \A k \in 1..Len(registered) :
                       /\ IsEntryOf(result.value.data.component[k], registered[k])
                       /\ result.value.data.component[k].is_ui = 1

\* generateExecuteScript has returned for a list with a dangling id between two
\* registered ones
C10_Witness ==
    /\ result.op = "generateExecuteScript"
    /\ ~result.threw
    /\ Len(result.value.data.component_ids) = 3
    /\ result.value.data.component_ids[2] \notin RegisteredIds
    /\ Len(result.value.data.component) = 2
    /\ result.value.data.component[1].id = result.value.data.component_ids[1]
    /\ result.value.data.component[2].id = result.value.data.component_ids[3]
    /\ result.value.data.component[1].id > result.value.data.component[2].id

\* C11: generateExecuteScript raises and returns no document whenever
\* defaults.container is the id of no entry of registry.containers, for either
\* variant and whether or not the component ids resolve; when it returns,
\* data.container_id is defaults.container and data.container is the entry of
\* that id.
C11_ExecuteScriptContainerStrict ==
    (result.op = "generateExecuteScript" /\ defaults # NULL) =>
        LET resolves == \E c \in Range(containers) : c.id = defaults.container
        IN /\ ~resolves => (result.threw /\ result.value = NULL)
           /\ ~result.threw =>
                 /\ resolves
                 /\ result.value.data.container_id = defaults.container
                 /\ \E c \in Range(containers) :
                       /\ c.id = defaults.container
                       /\ result.value.data.container.id = c.id
                       /\ result.value.data.container.name = c.name
                       /\ result.value.data.container.version = c.version
                       /\ result.value.data.container.file_name = c.file_name
                       /\ result.value.data.container.file_md5 = c.file_md5
                       /\ result.value.data.container.download_url = c.download_url
                       /\ result.value.data.container.framework = c.framework

\* generateExecuteScript has raised over the container although every id of
\* the variant's list is registered
C11_Witness ==
    /\ result.op = "generateExecuteScript"
    /\ result.threw
    /\ defaults # NULL /\ imagefs # NULL /\ executionConfig # NULL
    /\ Len(containers) > 0
    /\ \A c \in Range(containers) : c.id # defaults.container
    /\ result.args[1] = "generic"
    /\ Len(defaults.genericComponentIds) > 1
    /\ \A id \in Range(defaults.genericComponentIds) : id \in RegisteredIds

\* the places of the id index that hold a component of type t
PlacesOfType(t) == {i \in 1..Len(components) : components[i].type = t}

\* an entry of a document shows the registered component of its id: every field
\* the two share has the component's value
ShowsItsComponent(entry) ==
    \E c \in Range(components) :
        /\ c.id = entry.id
        /\ \A f \in (DOMAIN entry) \cap (DOMAIN c) : entry[f] = c[f]

\* C12: for every type t in 1..7, generateManifest(t).data.components holds
\* exactly the registered components of type t, each once, by id descending
\* whatever the order of registration, and data.total is their number.
C12_ManifestOfTypeByIdDescending ==
    result.op = "generateManifest" =>
        LET t == result.args[1]
            list == result.value.data.components
        IN /\ t \in 1..7
           /\ result.value.data.type = t
           /\ Len(list) = Cardinality(PlacesOfType(t))
           /\ result.value.data.total = Cardinality(PlacesOfType(t))
           /\ {list[k].id : k \in 1..Len(list)} = {components[i].id : i \in PlacesOfType(t)}
           /\ \A k \in 1..Len(list) : ShowsItsComponent(list[k]) /\ list[k].type = t
           /\ \A k \in 1..(Len(list) - 1) : list[k].id > list[k + 1].id

\* a manifest lists id 2 before id 1 although id 1 was registered first
C12_Witness ==
    /\ result.op = "generateManifest"
    /\ Len(result.value.data.components) = 2
    /\ result.value.data.components[1].id = 2
    /\ result.value.data.components[2].id = 1
    /\ Len(components) = 2
    /\ components[1].id = 1
    /\ components[2].id = 2
    /\ result.value.data.total = 2

RECURSIVE SumOfCounts(_)
SumOfCounts(categories) ==
    IF categories = <<>> THEN 0
    ELSE Head(categories).count + SumOfCounts(Tail(categories))

\* C13: generateIndex emits seven categories, for the types 1, 2, ..., 7 in
\* that order, types without a component included; each count is the number
\* of registered components of the type, and data.total_components is
\* getTotalCount() and the sum of the seven counts.
C13_IndexHasSevenCategories ==
    result.op = "generateIndex" =>
        LET categories == result.value.data.categories
        IN /\ Len(categories) = 7
           /\ \A k \in 1..Len(categories) :
                 /\ categories[k].type = k
                 /\ categories[k].count = Cardinality(PlacesOfType(k))
           /\ result.value.data.total_components = getTotalCount
           /\ result.value.data.total_components = Len(components)
           /\ result.value.data.total_components = SumOfCounts(categories)

\* the index of a registry with one component of type 1 and one of type 3
C13_Witness ==
    /\ result.op = "generateIndex"
    /\ result.value.data.categories[1].count = 1
    /\ result.value.data.categories[2].count = 0
    /\ result.value.data.categories[3].count = 1
    /\ result.value.data.categories[7].count = 0
    /\ result.value.data.total_components = 2

\* a document entry shows a component: every field the two share has the
\* component's value
Shows(entry, c) == \A f \in (DOMAIN entry) \cap (DOMAIN c) : entry[f] = c[f]

\* a list of entries shows every registered component exactly once
ShowsEveryComponentOnce(list) ==
    /\ Len(list) = Len(components)
    /\ \E p \in IndexPermutations(Len(components)) :
          \A k \in 1..Len(list) : Shows(list[k], components[p[k]])

\* the UTF-16 code unit of a one-letter name
CodeUnit(name) ==
    CASE name = "A" -> 65 [] name = "B" -> 66 [] name = "a" -> 97 [] name = "b" -> 98

\* the place of a one-letter name in the collation of localeCompare
CollationPlace(name) ==
    CHOOSE k \in 1..4 : <<"a", "A", "b", "B">>[k] = name

\* C14 as stated: generateDownloads lists every registered component exactly
\* once, by type ascending and, within a type, by name in lexicographic order
\* (the order of the code units); data.total is the number of registered
\* components.
C14_DownloadsByTypeThenCodeUnits ==
    result.op = "generateDownloads" =>
        LET list == result.value.data.downloads
        IN /\ ShowsEveryComponentOnce(list)
           /\ result.value.data.total = Len(components)
           /\ \A k \in 1..(Len(list) - 1) :
                 \/ list[k].type < list[k + 1].type
                 \/ /\ list[k].type = list[k + 1].type
                    /\ CodeUnit(list[k].name) <= CodeUnit(list[k + 1].name)

\* C14, amended: generateDownloads lists every registered component exactly
\* once, by type ascending and, within a type, by name in the order of
\* localeCompare, which goes by letter first and puts a lower-case letter before
\* its upper-case form ("a" before "B"); data.total is the number of
\* registered components.
C14_DownloadsByTypeThenCollation ==
    result.op = "generateDownloads" =>
        LET list == result.value.data.downloads
        IN /\ ShowsEveryComponentOnce(list)
           /\ result.value.data.total = Len(components)
           /\ \A k \in 1..(Len(list) - 1) :
                 \/ list[k].type < list[k + 1].type
                 \/ /\ list[k].type = list[k + 1].type
                    /\ CollationPlace(list[k].name) <= CollationPlace(list[k + 1].name)

\* the downloads of a registry that took "B" before "a", both of one type
C14_Witness ==
    /\ result.op = "generateDownloads"
    /\ Len(components) = 2
    /\ components[1].name = "B"
    /\ components[2].name = "a"
    /\ components[1].type = components[2].type
    /\ result.value.data.downloads[1].name = "a"
    /\ result.value.data.downloads[2].name = "B"
    /\ result.value.data.total = 2

\* C15: generateAllComponentList lists every registered component exactly
\* once, by type ascending and by id descending within a type, which is the
\* order sortByTypeAndIdDescending gives the registry's components, and
\* data.total is getTotalCount().
C15_AllComponentListByTypeThenIdDescending ==
    result.op = "generateAllComponentList" =>
        LET list == result.value.data.list
            sorted == sortByTypeAndIdDescending(getAllComponents).returned
        IN /\ ShowsEveryComponentOnce(list)
           /\ \A k \in 1..Len(list) : ShowsItsComponent(list[k])
           /\ {list[k].id : k \in 1..Len(list)} = RegisteredIds
           /\ \A k \in 1..(Len(list) - 1) :
                 \/ list[k].type < list[k + 1].type
                 \/ /\ list[k].type = list[k + 1].type
                    /\ list[k].id > list[k + 1].id
           /\ Len(sorted) = Len(list)
           /\ \A k \in 1..Len(list) : list[k].id = sorted[k].id
           /\ result.value.data.total = getTotalCount
           /\ result.value.data.total = Len(components)

\* the list of a registry that took id 2 of type 3 before id 1 of type 1: the
\* lower type comes first although its id is the lower one
C15_Witness ==
    /\ result.op = "generateAllComponentList"
    /\ Len(components) = 2
    /\ components[1].type = 3 /\ components[1].id = 2
    /\ components[2].type = 1 /\ components[2].id = 1
    /\ result.value.data.list[1].id = 1
    /\ result.value.data.list[2].id = 2
    /\ result.value.data.total = 2

\* C16: generateComponentList lists exactly the registered components of type
\* 1, by id descending; data.page is 1 and data.pageSize is 10 always, and
\* data.list holds every type-1 component, also when there are more than
\* pageSize of them; data.total is the length of data.list.
C16_ComponentListIsTypeOneUntruncated ==
    result.op = "generateComponentList" =>
        LET list == result.value.data.list
        IN /\ Len(list) = Cardinality(PlacesOfType(1))
           /\ {list[k].id : k \in 1..Len(list)} = {components[i].id : i \in PlacesOfType(1)}
           /\ \A k \in 1..Len(list) : ShowsItsComponent(list[k]) /\ list[k].type = 1
           /\ \A k \in 1..(Len(list) - 1) : list[k].id > list[k + 1].id
           /\ result.value.data.page = 1
           /\ result.value.data.pageSize = 10
           /\ result.value.data.total = Len(list)

\* the list of a registry with more type-1 components than pageSize, and a
\* component of another type
C16_Witness ==
    /\ result.op = "generateComponentList"
    /\ Len(result.value.data.list) > result.value.data.pageSize
    /\ result.value.data.total = Len(result.value.data.list)
    /\ Len(components) > Len(result.value.data.list)

\* C17: the fields of an entry are fixed per generator: Manifest and
\* AllComponentList entries carry is_ui = 1 and neither blurb nor gpu_range;
\* ComponentList entries carry blurb and gpu_range (the empty string when the
\* component has none) and no is_ui; Downloads entries carry none of id, logo,
\* display_name, version_code, is_ui; ExecuteScript component entries carry
\* is_base = 0, base_type = 0 and is_ui = 1.
C17_EntryFieldsPerGenerator ==
    LET entries(list) == {list[k] : k \in 1..Len(list)}
    IN /\ result.op = "generateManifest" =>
             \A e \in entries(result.value.data.components) :
                 /\ "is_ui" \in DOMAIN e /\ e.is_ui = 1
                 /\ {"blurb", "gpu_range"} \cap DOMAIN e = {}
       /\ result.op = "generateAllComponentList" =>
             \A e \in entries(result.value.data.list) :
                 /\ "is_ui" \in DOMAIN e /\ e.is_ui = 1
                 /\ {"blurb", "gpu_range"} \cap DOMAIN e = {}
       /\ result.op = "generateComponentList" =>
             \A e \in entries(result.value.data.list) :
                 /\ {"blurb", "gpu_range"} \subseteq DOMAIN e
                 /\ "is_ui" \notin DOMAIN e
                 /\ \E c \in Range(components) :
                       /\ c.id = e.id
                       /\ e.blurb = c.blurb
                       /\ "gpu_range" \notin DOMAIN c /\ e.gpu_range = ""
       /\ result.op = "generateDownloads" =>
             \A e \in entries(result.value.data.downloads) :
                 {"id", "logo", "display_name", "version_code", "is_ui"} \cap DOMAIN e = {}
       /\ (result.op = "generateExecuteScript" /\ ~result.threw) =>
             \A e \in entries(result.value.data.component) :
                 /\ {"is_base", "base_type", "is_ui"} \subseteq DOMAIN e
                 /\ e.is_base = 0 /\ e.base_type = 0 /\ e.is_ui = 1

\* getComponentList has listed a component with a blurb and one without; neither
\* has a gpu_range
C17_Witness ==
    /\ result.op = "generateComponentList"
    /\ Len(result.value.data.list) = 2
    /\ result.value.data.list[1].blurb = "note"
    /\ result.value.data.list[2].blurb = ""
    /\ \A k \in 1..2 :
          /\ result.value.data.list[k].gpu_range = ""
          /\ "is_ui" \notin DOMAIN result.value.data.list[k]

\* how a key is spelled
Spelling(key) ==
    CASE key = "audio_driver" ->
            <<"a", "u", "d", "i", "o", "_", "d", "r", "i", "v", "e", "r">>
      [] key = "base_type" ->
            <<"b", "a", "s", "e", "_", "t", "y", "p", "e">>
      [] key = "blurb" ->
            <<"b", "l", "u", "r", "b">>
      [] key = "component" ->
            <<"c", "o", "m", "p", "o", "n", "e", "n", "t">>
      [] key = "component_ids" ->
            <<"c", "o", "m", "p", "o", "n", "e", "n", "t", "_", "i", "d", "s">>
      [] key = "container" ->
            <<"c", "o", "n", "t", "a", "i", "n", "e", "r">>
      [] key = "container_id" ->
            <<"c", "o", "n", "t", "a", "i", "n", "e", "r", "_", "i", "d">>
      [] key = "controller" ->
            <<"c", "o", "n", "t", "r", "o", "l", "l", "e", "r">>
      [] key = "cpu_limitations" ->
            <<"c", "p", "u", "_", "l", "i", "m", "i", "t", "a", "t", "i", "o", "n", "s">>
      [] key = "directx_panel" ->
            <<"d", "i", "r", "e", "c", "t", "x", "_", "p", "a", "n", "e", "l">>
      [] key = "display_name" ->
            <<"d", "i", "s", "p", "l", "a", "y", "_", "n", "a", "m", "e">>
      [] key = "download_url" ->
            <<"d", "o", "w", "n", "l", "o", "a", "d", "_", "u", "r", "l">>
      [] key = "environment" ->
            <<"e", "n", "v", "i", "r", "o", "n", "m", "e", "n", "t">>
      [] key = "execution_context" ->
            <<"e", "x", "e", "c", "u", "t", "i", "o", "n", "_", "c", "o", "n", "t", "e", "x", "t">>
      [] key = "file_md5" ->
            <<"f", "i", "l", "e", "_", "m", "d", "5">>
      [] key = "file_name" ->
            <<"f", "i", "l", "e", "_", "n", "a", "m", "e">>
      [] key = "file_size" ->
            <<"f", "i", "l", "e", "_", "s", "i", "z", "e">>
      [] key = "gpu_range" ->
            <<"g", "p", "u", "_", "r", "a", "n", "g", "e">>
      [] key = "id" ->
            <<"i", "d">>
      [] key = "imagefs" ->
            <<"i", "m", "a", "g", "e", "f", "s">>
      [] key = "is_base" ->
            <<"i", "s", "_", "b", "a", "s", "e">>
      [] key = "is_ui" ->
            <<"i", "s", "_", "u", "i">>
      [] key = "launch_windowed_mode" ->
            <<"l", "a", "u", "n", "c", "h", "_", "w", "i", "n", "d", "o", "w", "e", "d", "_", "m", "o", "d", "e">>
      [] key = "logo" ->
            <<"l", "o", "g", "o">>
      [] key = "name" ->
            <<"n", "a", "m", "e">>
      [] key = "start_param" ->
            <<"s", "t", "a", "r", "t", "_", "p", "a", "r", "a", "m">>
      [] key = "translations" ->
            <<"t", "r", "a", "n", "s", "l", "a", "t", "i", "o", "n", "s">>
      [] key = "type" ->
            <<"t", "y", "p", "e">>
      [] key = "version" ->
            <<"v", "e", "r", "s", "i", "o", "n">>
      [] key = "version_code" ->
            <<"v", "e", "r", "s", "i", "o", "n", "_", "c", "o", "d", "e">>
      [] key = "video_memory" ->
            <<"v", "i", "d", "e", "o", "_", "m", "e", "m", "o", "r", "y">>

CharCode(ch) ==
    CASE ch = "5" -> 53 [] ch = "_" -> 95 [] ch = "a" -> 97 [] ch = "b" -> 98
      [] ch = "c" -> 99 [] ch = "d" -> 100 [] ch = "e" -> 101 [] ch = "f" -> 102
      [] ch = "g" -> 103 [] ch = "h" -> 104 [] ch = "i" -> 105 [] ch = "l" -> 108
      [] ch = "m" -> 109 [] ch = "n" -> 110 [] ch = "o" -> 111 [] ch = "p" -> 112
      [] ch = "r" -> 114 [] ch = "s" -> 115 [] ch = "t" -> 116 [] ch = "u" -> 117
      [] ch = "v" -> 118 [] ch = "w" -> 119 [] ch = "x" -> 120 [] ch = "y" -> 121
      [] ch = "z" -> 122

\* one spelling comes before another in alphabetical order
ComesBefore(x, y) ==
    \E i \in 1..Len(y) :
        /\ \A j \in 1..(i - 1) : j <= Len(x) /\ x[j] = y[j]
        /\ \/ i = Len(x) + 1
           \/ i <= Len(x) /\ CharCode(x[i]) < CharCode(y[i])

IsAlphabetical(keys) ==
    \A k \in 1..(Len(keys) - 1) : ComesBefore(Spelling(keys[k]), Spelling(keys[k + 1]))

\* every entry of a list has the keys of one key sequence, which is alphabetical
EmitsAlphabetically(list, keys) ==
    /\ IsAlphabetical(keys)
    /\ \A k \in 1..Len(list) : DOMAIN list[k] = Range(keys)

\* C18: every per-component entry that the Manifest, Downloads,
\* AllComponentList, ComponentList, DefaultComponent and ExecuteScript
\* generators emit, and the data object of ExecuteScript, lists its keys in
\* ascending alphabetical order, and one generator emits one key sequence for
\* every component.
C18_KeysAscendAlphabetically ==
    /\ result.op = "generateManifest" =>
          EmitsAlphabetically(result.value.data.components, toManifestComponentKeys)
    /\ result.op = "generateDownloads" =>
          EmitsAlphabetically(result.value.data.downloads, toDownloadEntryKeys)
    /\ result.op = "generateAllComponentList" =>
          EmitsAlphabetically(result.value.data.list, toAllComponentEntryKeys)
    /\ result.op = "generateComponentList" =>
          EmitsAlphabetically(result.value.data.list, toComponentListEntryKeys)
    /\ (result.op = "generateDefaultComponent" /\ ~result.threw) =>
          /\ EmitsAlphabetically(<<result.value.data.dxvk, result.value.data.vkd3d,
                                   result.value.data.steamClient>>,
                                 toDefaultComponentEntryKeys)
          /\ EmitsAlphabetically(<<result.value.data.translator>>, createEmptyComponentKeys)
    /\ (result.op = "generateExecuteScript" /\ ~result.threw) =>
          /\ EmitsAlphabetically(result.value.data.component, toExecuteComponentKeys)
          /\ EmitsAlphabetically(<<result.value.data>>, executeScriptDataKeys)

\* an execute script with two component entries
C18_Witness ==
    /\ result.op = "generateExecuteScript"
    /\ ~result.threw
    /\ Len(result.value.data.component) = 2
    /\ result.value.data.component[1].id # result.value.data.component[2].id
    /\ DOMAIN result.value.data.component[1] = DOMAIN result.value.data.component[2]

\* what the call that yielded r yields when it is made once more
Again(r) ==
    CASE r.op = "validate" -> Returned("validate", <<>>, validate)
      [] r.op = "generateManifest" -> generateManifest(r.args[1])
      [] r.op = "generateIndex" -> generateIndex
      [] r.op = "generateDownloads" -> generateDownloads
      [] r.op = "generateAllComponentList" -> generateAllComponentList(r.args[1])
      [] r.op = "generateComponentList" -> generateComponentList(r.args[1])
      [] r.op = "generateContainerList" -> generateContainerList(r.args[1])
      [] r.op = "generateDefaultComponent" -> generateDefaultComponent(r.args[1])
      [] r.op = "generateImagefsDetail" -> generateImagefsDetail(r.args[1])
      [] r.op = "generateExecuteScript" -> generateExecuteScript(r.args[1], r.args[2])

\* C19: the read accessors, validate() and every generator leave the registry
\* as it is (id index, name index, the order of every type partition,
\* containers and singletons): after any call on the loaded registry the
\* accessors return what they returned before, and the call made once more
\* yields the same document.
C19_CallsLeaveRegistryUnchanged ==
    [][pc = "ready" =>
          /\ registry' = registry
          /\ \A t \in ComponentTypes :
                /\ getByType(t)' = getByType(t)
                /\ getCountByType(t)' = getCountByType(t)
          /\ getAllComponents' = getAllComponents
          /\ getTotalCount' = getTotalCount
          /\ \A id \in Ids : getById(id)' = getById(id)
          /\ \A name \in Names : getByName(name)' = getByName(name)
          /\ Again(result)' = result']_vars

\* a manifest was generated from a partition that is not in id descending
\* order, and the partition is still in the order of registration
C19_Witness ==
    /\ result.op = "generateManifest"
    /\ Len(result.value.data.components) = 2
    /\ LET t == result.args[1]
       IN /\ Len(componentsByType[t]) = 2
          /\ componentsByType[t][1].id < componentsByType[t][2].id
          /\ result.value.data.components[1].id = componentsByType[t][2].id

\* the output files that carry a time
StampedFiles ==
    {<<"simulator/v2", "getAllComponentList">>, <<"simulator/v2", "getComponentList">>,
     <<"simulator/v2", "getContainerList">>, <<"simulator/v2", "getDefaultComponent">>,
     <<"simulator/v2", "getImagefsDetail">>, <<"simulator/executeScript", "generic">>,
     <<"simulator/executeScript", "qualcomm">>}

\* C20: within one build run every time-stamped document (getAllComponentList,
\* getComponentList, getContainerList, getDefaultComponent, getImagefsDetail,
\* executeScript/generic, executeScript/qualcomm) carries the same time, which
\* is the configured timestamp when one is set and otherwise one reading of
\* the clock, taken once before the first document is generated.
C20_OneTimestampPerBuild ==
    /\ \A k \in 1..Len(written) :
          /\ written[k].stamped <=> written[k].path \in StampedFiles
          /\ written[k].stamped =>
                /\ written[k].time = timestamp
                /\ written[k].time # <<>>
                /\ config.timestamp # <<>> => written[k].time = config.timestamp
                /\ config.timestamp = <<>> =>
                      \E reading \in ClockStart..clock :
                          written[k].time = NumberToString(reading)
    /\ \A j, k \in 1..Len(written) :
          (written[j].stamped /\ written[k].stamped) => written[j].time = written[k].time
    /\ (pc = "generating" /\ written = <<>> /\ config.timestamp = <<>>) =>
          \E reading \in ClockStart..clock : timestamp = NumberToString(reading)

\* a build without a configured timestamp has written its seven time-stamped
\* files, and the clock has moved on since the timestamp was taken
C20_Witness ==
    /\ config.timestamp = <<>>
    /\ Len(written) = Len(BuildOrder)
    /\ Cardinality({k \in 1..Len(written) : written[k].stamped}) = 7
    /\ timestamp = NumberToString(ClockStart)
    /\ clock > ClockStart
    /\ written[Len(written)].time = timestamp

----------------------------------------------------------------------------
\* the name a release asset gets: every space of the file name is a dot
GitHubAssetName(fileName) ==
    [i \in 1..Len(fileName) |-> IF fileName[i] = " " THEN "." ELSE fileName[i]]

EndsWith(s, suffix) ==
    /\ Len(suffix) <= Len(s)
    /\ SubSeq(s, Len(s) - Len(suffix) + 1, Len(s)) = suffix

\* C21: the download_url of every registered component ends with the release
\* asset name of its file, which is its file_name with each space replaced by
\* a dot (a file_name "g h" gives a URL ending in "g.h").
C21_DownloadUrlEndsWithAssetName ==
    \A i \in 1..Len(components) :
        EndsWith(components[i].download_url, GitHubAssetName(components[i].file_name))

----------------------------------------------------------------------------
\* the release was listed, and the file of some registered component is not on it
FileAbsentFrom(fetch) ==
    \E i \in 1..Len(components) :
        GitHubAssetName(components[i].file_name) \notin fetch.assets

\* C22: once build() has checked a release whose assets it could list, the
\* build has failed (exited with an error) whenever the file of some registered
\* component is absent from the asset list, a release without any asset
\* included, and it has reported success only when every component file is
\* on the release.
C22_BuildFailsIffFileMissing ==
    (result.op = "checkMissingFiles" /\ result.args[1].ok) =>
        /\ FileAbsentFrom(result.args[1]) => pc = "exited"
        /\ (pc = "complete" /\ result.value.log = "All files exist") =>
              ~FileAbsentFrom(result.args[1])

----------------------------------------------------------------------------
\* C23: the validate command reports success exactly when the validation step
\* of build reports success on the same data files (primary catalog, override
\* file, containers, imagefs, defaults, execution config), and while it runs
\* no output document is written.
C23_ValidateCommandAgreesWithBuild ==
    /\ (command = "build" /\ pc \in {"validated", "exited"} /\ result.op = "validate") =>
          (reported = "passed" <=> result.value.valid)
    /\ command = "validate" => written = <<>>

----------------------------------------------------------------------------
GeneratorNames ==
    {"generateManifest", "generateIndex", "generateDownloads", "generateAllComponentList",
     "generateComponentList", "generateContainerList", "generateDefaultComponent",
     "generateImagefsDetail", "generateExecuteScript"}

\* the run is still loading: validate() has not been called
Loading == pc \in {"xml", "custom", "static", "ready"}

----------------------------------------------------------------------------
\* the component occurs in the partition of the given type
InPartition(c, type) ==
    /\ type \in DOMAIN componentsByType
    /\ \E k \in 1..Len(componentsByType[type]) : componentsByType[type][k] = c

\* C25: every component the registry holds has a type in 1..7, no addComponent
\* call raises, whichever source delivered the record, and every component of
\* the id index is in the partition of its type (a record of a type outside
\* 1..7 is never registered and never leaves the indexes out of step).
C25_TypesInRangeAndNoRaise ==
    /\ \A i \in 1..Len(components) :
          /\ components[i].type \in ComponentTypes
          /\ InPartition(components[i], components[i].type)
    /\ result.op = "addComponent" => ~result.threw

----------------------------------------------------------------------------
\* C26: the merged list holds the primary records before the override records,
\* and the first registration of an id wins: every component the registry
\* holds is the first record of the merged list with its id, so when a primary
\* and an override record share an id the registry holds the primary one and
\* the override record is discarded, and an override record is registered
\* only when no earlier record carries its id.
C26_PrimaryRecordWinsOverOverride ==
    ListLive =>
        /\ \A i, j \in 1..Len(merged) :
              (merged[i].source = "custom" /\ merged[j].source = "xml") => j < i
        /\ \A c \in Held : IsRecord(c, FirstWithId(merged, c.id).component)
        /\ \A i \in 1..Len(merged) :
              LET r == merged[i].component IN
              /\ has(r.id)
              /\ IsRecord(getById(r.id), FirstWithId(merged, r.id).component)
              /\ (merged[i].source = "custom" /\ ~Accepted(i)) =>
                    Len(components) = Cardinality({j \in 1..Len(merged) : Accepted(j)})
              /\ (merged[i].source = "custom"
                  /\ \E j \in 1..Len(merged) :
                        merged[j].source = "xml" /\ merged[j].component.id = r.id) =>
                    FirstWithId(merged, r.id).source = "xml"

\* a primary and an override record share an id and differ in name and type,
\* the registry holds the primary one, and a second override record with a
\* fresh id is registered
C26_Witness ==
    /\ ListLive
    /\ \E i, j, k \in 1..Len(merged) :
          /\ merged[i].source = "xml" /\ merged[j].source = "custom"
          /\ merged[k].source = "custom"
          /\ merged[i].component.id = merged[j].component.id
          /\ merged[i].component.name # merged[j].component.name
          /\ merged[i].component.type # merged[j].component.type
          /\ IsRecord(getById(merged[i].component.id), merged[i].component)
          /\ merged[k].component.id # merged[i].component.id
          /\ IsRecord(getById(merged[k].component.id), merged[k].component)
          /\ Len(components) = 2

----------------------------------------------------------------------------
\* the component entries of an ExecuteScript document
ScriptEntries(document) == IF document.threw THEN <<>> ELSE document.value.data.component

\* C27: on a registry that validate() finds valid, each of the 16 generator
\* calls of build returns without raising, each ExecuteScript document has as
\* many component entries as its variant has configured component ids, and so
\* a build that has passed validation never stops in the middle of writing
\* its documents.
C27_ValidRegistryGeneratesEverything ==
    /\ (pc \in {"ready", "validated", "generating"} /\ validate.valid) =>
          /\ \A k \in 1..Len(BuildOrder) : ~BuildDocument(k).threw
          /\ Len(ScriptEntries(BuildDocument(Len(BuildOrder) - 1)))
                = Len(defaults.genericComponentIds)
          /\ Len(ScriptEntries(BuildDocument(Len(BuildOrder))))
                = Len(defaults.qualcommComponentIds)
    /\ (pc = "crashed" /\ result.op \in GeneratorNames) => ~validate.valid
    /\ (pc = "complete" \/ (pc = "exited" /\ result.op = "checkMissingFiles")) =>
          Len(written) = Len(BuildOrder)

----------------------------------------------------------------------------
\* the places of component c in the partition of the given type
PlacesIn(c, type) == {k \in 1..Len(componentsByType[type]) : componentsByType[type][k] = c}

RECURSIVE SumOfPartitionCounts(_)
SumOfPartitionCounts(type) ==
    IF type = 0 THEN 0 ELSE getCountByType(type) + SumOfPartitionCounts(type - 1)

\* C28: after any sequence of addComponent calls the three indexes agree:
\* every component of the id index occurs exactly once in the partition of
\* its own type and in no other partition, every partition element is in the
\* id index, and getTotalCount() equals the sum of getCountByType(t) over
\* t in 1..7 and the length of getAllComponents().
C28_IndexesAgree ==
    /\ \A i \in 1..Len(components) :
          LET c == components[i] IN
          /\ c.type \in DOMAIN componentsByType
          /\ Cardinality(PlacesIn(c, c.type)) = 1
          /\ \A t \in DOMAIN componentsByType \ {c.type} : PlacesIn(c, t) = {}
    /\ \A t \in DOMAIN componentsByType :
          \A k \in 1..Len(componentsByType[t]) :
              \E i \in 1..Len(components) : components[i] = componentsByType[t][k]
    /\ getTotalCount = SumOfPartitionCounts(7)
    /\ getTotalCount = Len(getAllComponents)

----------------------------------------------------------------------------
\* the place in the id index of the component registered last under the name
LastNamed(name) ==
    CHOOSE i \in 1..Len(components) :
        /\ components[i].name = name
        /\ \A j \in 1..Len(components) : components[j].name = name => j <= i

\* C29: after any sequence of addComponent calls, getByName(c.name) returns,
\* for every registered component c, a registered component of that name; when
\* registered components with different ids share a name it is the one that
\* was registered last, and each of them is still what getById returns for
\* its id.
C29_NameIndexLastWins ==
    \A i \in 1..Len(components) :
        LET c == components[i] IN
        /\ getByName(c.name) # UNDEFINED
        /\ getByName(c.name) \in Range(components)
        /\ getByName(c.name).name = c.name
        /\ getByName(c.name) = components[LastNamed(c.name)]
        /\ getById(c.id) = c

\* custom_components.json as the run found it
FileBeforeRun ==
    IF converter.writes = 0 THEN converter.file
    ELSE SubSeq(converter.file, 1,
                Len(converter.file) - Len(converter.newComponents))

\* the positions in zipFiles of the zips converted so far, in processing order
CreatedAt ==
    LET Positions == [i \in 1..Len(converter.log) |-> i]
    IN  SelectSeq(Positions, LAMBDA i : converter.log[i] = "Created")

\* C30: in one run of the driver converter the ids of the newly added drivers
\* are at least 990, greater than every id of the custom components file and
\* of the XML catalog, and consecutive in processing order (so distinct); a
\* failed conversion consumes no id and the loop goes on to the last zip; a
\* zip whose name or .tzst file name the file already has adds no entry; and
\* the file is written only when a driver was added.
C30_ConverterIds ==
    pc \in {"zips", "returned"} =>
        LET new == converter.newComponents
            before == FileBeforeRun
            zips == converter.zipFiles
            Added(i) == \E k \in 1..Len(new) : CreatedAt[k] = i
        IN  /\ \A k \in 1..Len(new) :
                 /\ new[k].id >= 990
                 /\ \A j \in 1..Len(before) : new[k].id > before[j].id
                 /\ converter.xml.exists =>
                       \A j \in 1..Len(converter.xml.ids) :
                          new[k].id > converter.xml.ids[j]
                 /\ new[k].id = new[1].id + (k - 1)
                 /\ \A l \in 1..Len(new) : new[k].id = new[l].id => k = l
            /\ Len(CreatedAt) = Len(new)
            /\ \A k \in 1..Len(new) :
                 new[k].name = basename(zips[CreatedAt[k]], DotZip)
            /\ converter.nextId - Len(new)
                  = (IF Len(new) = 0 THEN converter.nextId ELSE new[1].id)
            /\ pc = "returned" /\ Len(zips) > 0 => Len(converter.log) = Len(zips)
            /\ \A i \in 1..Len(converter.log) :
                 LET driverName == basename(zips[i], DotZip)
                 IN  (\E j \in 1..Len(before) :
                         \/ before[j].name = driverName
                         \/ before[j].file_name = driverName \o DotTzst)
                     => ~Added(i)
            /\ converter.writes > 0 => Len(new) >= 1
            /\ converter.writes = 0 /\ pc = "returned" => Len(new) = 0

\* a finished run that converted a zip, failed on the next and converted a
\* third, beside a catalog whose highest id is above 990
C30_Witness ==
    /\ pc = "returned"
    /\ converter.log = <<"Created", "Failed", "Created">>
    /\ converter.writes = 1
    /\ converter.xml.exists
    /\ \E j \in 1..Len(converter.xml.ids) : converter.xml.ids[j] > BaseId
    /\ Len(FileBeforeRun) > 0

====
